---- MODULE Spec2Model ----
\* drplr: drop creation (upload / link / note), the private-drop
\* reconciliation of lib/api-utils.js and the error classifier.
\* One behaviour of the model is one invocation of a drop creator.
\* Strings the code concatenates are sequences of tokens, so that a message
\* can be taken apart again.
EXTENDS Integers, Sequences, FiniteSets, TLC

\* ---------------------------------------------------------------- bounds
MaxTextLen == 3

\* ------------------------------------------------------------ vocabulary
Chars == {" ", "h", "i"}
WhiteSpace == {" "}

Texts == UNION {[1..n -> Chars] : n \in 0..MaxTextLen}

\* URL arguments, tokenised as scheme, ":", "//", host, rest.
UrlInputs ==
  { <<"not-a-url">>,
    <<"invalid-url">>,
    <<>>,
    <<"ftp", ":", "//", "example.com">>,
    <<"javascript", ":", "alert(\"xss\")">>,
    <<"http", ":", "//">>,
    <<"https", ":", "//", "example.com">>,
    <<"http", ":", "//", "example.com">>,
    <<"https", ":", "//", "sub.example.com", "/path?query=value#hash">>,
    <<"http", ":", "//", "localhost:3000">> }

\* File paths, tokenised as directory parts (ending in "/") and then the
\* dot-separated parts of the base name.
FileInputs ==
  { <<"test", ".txt">>,
    <<"docs/", "report", ".final", ".pdf">>,
    <<"archive", ".zzz">>,
    <<"script", ".js">>,
    <<"IMAGE", ".PNG">>,
    <<"notes", ".md">>,
    <<"README">> }

Titles == { <<>>, <<"My Title">> }
Passwords == { "", "secret" }
Boards == { "", "My Board", "123e4567-e89b-42d3-a456-426614174000" }
BoardIds == { "123e4567-e89b-42d3-a456-426614174000" }
CredTypes == { "jwt", "basic", "anonymous" }

\* Raw errors of the remote SDK (loosely typed): an optional validation
\* payload (list or map), an optional data.message, an optional HTTP status
\* with status text, and the Error's own message.  Absent strings are <<>>,
\* an absent status is 0 (all falsy in the source).
NoErrors == [fmt |-> "none", items |-> <<>>]

Raw(errors, dataMessage, status, statusText, message) ==
  [id |-> 0, classified |-> FALSE, errors |-> errors,
   dataMessage |-> dataMessage, status |-> status,
   statusText |-> statusText, message |-> message]

Item(field, hasMessages, messages) ==
  [field |-> field, hasMessages |-> hasMessages, messages |-> messages]

RawErrors ==
  { Raw([fmt |-> "list",
         items |-> << Item("password", TRUE,
                           << <<"\"password\"", "is too short">>,
                              <<"must contain a digit">> >>),
                      Item("privacy", FALSE, <<>>) >>],
        <<"Validation failed">>, 400, "Bad Request", <<"Request failed">>),
    Raw([fmt |-> "map",
         items |-> << Item("content", TRUE,
                           << <<"is not a url">>, <<"is too long">> >>) >>],
        <<>>, 422, "Unprocessable Entity", <<"Request failed">>),
    Raw(NoErrors, <<"Drop limit reached">>, 403, "Forbidden",
        <<"Request failed">>),
    Raw(NoErrors, <<>>, 401, "Unauthorized", <<"Request failed">>),
    Raw(NoErrors, <<>>, 0, "", <<"socket hang up">>) }

\* ------------------------------------------------------ error classifier
IsQuoted(tok) == tok \in {"\"password\"", "\"privacy\"", "\"content\""}

\* msg.replace(/^".*?"\s*/, '')
StripQuoted(msg) ==
  IF msg # <<>> /\ IsQuoted(Head(msg)) THEN Tail(msg) ELSE msg

RECURSIVE Flatten(_)
Flatten(ss) == IF ss = <<>> THEN <<>> ELSE Head(ss) \o Flatten(Tail(ss))

RECURSIVE Join(_, _)
Join(ss, sep) ==
  IF ss = <<>> THEN <<>>
  ELSE IF Len(ss) = 1 THEN Head(ss)
  ELSE Head(ss) \o <<sep>> \o Join(Tail(ss), sep)

UploadError(message, fresh) ==
  [id |-> fresh, classified |-> TRUE, errors |-> NoErrors,
   dataMessage |-> <<>>, status |-> 0, statusText |-> "",
   message |-> message]

\* Mutant: only the first message of a list entry is rendered.
ListLines_FirstOnly(err) ==
  LET messages == IF err.hasMessages THEN err.messages
                  ELSE << <<"Invalid value">> >>
  IN <<"\n    * ", err.field, ": ">> \o StripQuoted(messages[1])

\* One "\n    * field: msg" line per message of a list entry.
ListLines(err) ==
  LET messages == IF err.hasMessages THEN err.messages
                  ELSE << <<"Invalid value">> >>
  IN Flatten([k \in 1..Len(messages) |->
                <<"\n    * ", err.field, ": ">> \o StripQuoted(messages[k])])

\* Mutant: only the first message of a field is rendered.
MapLine_FirstOnly(err) ==
  <<err.field, ": ">> \o err.messages[1]

\* "field: msg1, msg2" for an entry of a map payload.
MapLine(err) ==
  <<err.field, ": ">> \o Join(err.messages, ", ")

\* Mutant: an already classified error is wrapped again.
parseApiError_Rewrap(error, operation, fresh) ==
  UploadError(<<operation, " failed:", " ">> \o error.message, fresh)

\* Mutant: the single message is looked at before the validation payload.
parseApiError_MessageFirst(error, operation, fresh) ==
  IF error.classified THEN error
  ELSE IF error.dataMessage # <<>> THEN
    UploadError(<<operation, " failed:", " ">> \o error.dataMessage, fresh)
  ELSE IF error.errors.fmt = "list" THEN
    UploadError(<<operation, " failed:">>
                  \o Flatten([k \in 1..Len(error.errors.items) |->
                                ListLines(error.errors.items[k])]),
                fresh)
  ELSE IF error.errors.fmt = "map" THEN
    UploadError(<<operation, " failed:", "\n">>
                  \o Join([k \in 1..Len(error.errors.items) |->
                             MapLine(error.errors.items[k])], "\n"),
                fresh)
  ELSE IF error.status # 0 THEN
    UploadError(<<operation, " failed:", " ">>
                  \o <<ToString(error.status), " ", error.statusText>>, fresh)
  ELSE
    UploadError(<<operation, " failed:", " ">> \o error.message, fresh)

\* parseApiError(error, operation); fresh is the identity of the object it
\* may construct.
parseApiError(error, operation, fresh) ==
  IF error.classified THEN error
  ELSE IF error.errors.fmt = "list" THEN
    UploadError(<<operation, " failed:">>
                  \o Flatten([k \in 1..Len(error.errors.items) |->
                                ListLines(error.errors.items[k])]),
                fresh)
  ELSE IF error.errors.fmt = "map" THEN
    UploadError(<<operation, " failed:", "\n">>
                  \o Join([k \in 1..Len(error.errors.items) |->
                             MapLine(error.errors.items[k])], "\n"),
                fresh)
  ELSE IF error.dataMessage # <<>> THEN
    UploadError(<<operation, " failed:", " ">> \o error.dataMessage, fresh)
  ELSE IF error.status # 0 THEN
    UploadError(<<operation, " failed:", " ">>
                  \o <<ToString(error.status), " ", error.statusText>>, fresh)
  ELSE
    UploadError(<<operation, " failed:", " ">> \o error.message, fresh)

\* ------------------------------------------------------- pure helpers
RECURSIVE TrimLeft(_)
TrimLeft(s) ==
  IF s # <<>> /\ Head(s) \in WhiteSpace THEN TrimLeft(Tail(s)) ELSE s

RECURSIVE TrimRight(_)
TrimRight(s) ==
  IF s # <<>> /\ s[Len(s)] \in WhiteSpace
  THEN TrimRight(SubSeq(s, 1, Len(s) - 1)) ELSE s

\* Mutant: only leading whitespace is removed.
trim_LeftOnly(s) == TrimLeft(s)

\* String.prototype.trim
trim(s) == TrimRight(TrimLeft(s))

SpecialSchemes == {"http", "https", "ftp"}
Schemes == SpecialSchemes \cup {"javascript"}

\* Mutant: every argument is taken for a URL.
ParsesAsURL_Any(url) == TRUE

\* new URL(url) does not throw: the input has a scheme, and for a special
\* scheme also a host.
ParsesAsURL(url) ==
  /\ Len(url) >= 2
  /\ url[1] \in Schemes
  /\ url[2] = ":"
  /\ url[1] \in SpecialSchemes =>
       /\ Len(url) >= 4
       /\ url[3] = "//"

IsDir(tok) == tok \in {"docs/"}

\* path.basename
RECURSIVE basename(_)
basename(p) ==
  IF p # <<>> /\ IsDir(Head(p)) THEN basename(Tail(p)) ELSE p

\* path.extname: the last dot part of the base name, unless the base name
\* starts with it.
extname(p) ==
  LET b == basename(p)
  IN IF Len(b) >= 2 THEN b[Len(b)] ELSE ""

\* Mutant: the extension is looked up as written.
toLowerCase_Identity(ext) == ext

\* String.prototype.toLowerCase on the extensions of FileInputs.
toLowerCase(ext) == IF ext = ".PNG" THEN ".png" ELSE ext

mimeTypes ==
  [e \in {".jpg", ".jpeg", ".png", ".gif", ".webp", ".pdf", ".txt", ".md",
          ".json", ".mp4", ".mov", ".avi", ".mp3", ".wav"} |->
     CASE e = ".jpg" -> "image/jpeg"
       [] e = ".jpeg" -> "image/jpeg"
       [] e = ".png" -> "image/png"
       [] e = ".gif" -> "image/gif"
       [] e = ".webp" -> "image/webp"
       [] e = ".pdf" -> "application/pdf"
       [] e = ".txt" -> "text/plain"
       [] e = ".md" -> "text/markdown"
       [] e = ".json" -> "application/json"
       [] e = ".mp4" -> "video/mp4"
       [] e = ".mov" -> "video/quicktime"
       [] e = ".avi" -> "video/avi"
       [] e = ".mp3" -> "audio/mpeg"
       [] e = ".wav" -> "audio/wav"]

getMimeType(fileName) ==
  LET ext == toLowerCase(extname(fileName))
  IN IF ext \in DOMAIN mimeTypes THEN mimeTypes[ext]
     ELSE "application/octet-stream"

getVariant(options) ==
  IF options.isCode \/ options.lang # "" THEN "text/code" ELSE "text/plain"

isValidBoardId(str) == str \in BoardIds

OperationName(c) ==
  CASE c = "upload" -> "Upload"
    [] c = "link" -> "Link creation"
    [] c = "note" -> "Note creation"
    [] c = "noteFile" -> "Note creation"

\* The langMap table of detectLanguageFromFile.  Its '.R' key is left out:
\* the extension is lower-cased before the lookup, so it is never read.
langMap ==
  [e \in {".js", ".ts", ".py", ".rb", ".php", ".java", ".c", ".cpp", ".cc",
          ".cxx", ".h", ".hpp", ".cs", ".go", ".rs", ".swift", ".kt",
          ".scala", ".sh", ".bash", ".zsh", ".fish", ".ps1", ".sql", ".html",
          ".htm", ".css", ".scss", ".sass", ".less", ".xml", ".json",
          ".yaml", ".yml", ".toml", ".ini", ".conf", ".md", ".markdown",
          ".tex", ".r", ".m", ".pl", ".lua", ".vim", ".dockerfile",
          ".makefile"} |->
     CASE e = ".js" -> "javascript" [] e = ".ts" -> "typescript"
       [] e = ".py" -> "python" [] e = ".rb" -> "ruby"
       [] e = ".php" -> "php" [] e = ".java" -> "java"
       [] e = ".c" -> "c" [] e = ".cpp" -> "cpp" [] e = ".cc" -> "cpp"
       [] e = ".cxx" -> "cpp" [] e = ".h" -> "c" [] e = ".hpp" -> "cpp"
       [] e = ".cs" -> "csharp" [] e = ".go" -> "go" [] e = ".rs" -> "rust"
       [] e = ".swift" -> "swift" [] e = ".kt" -> "kotlin"
       [] e = ".scala" -> "scala" [] e = ".sh" -> "bash"
       [] e = ".bash" -> "bash" [] e = ".zsh" -> "zsh"
       [] e = ".fish" -> "fish" [] e = ".ps1" -> "powershell"
       [] e = ".sql" -> "sql" [] e = ".html" -> "html"
       [] e = ".htm" -> "html" [] e = ".css" -> "css"
       [] e = ".scss" -> "scss" [] e = ".sass" -> "sass"
       [] e = ".less" -> "less" [] e = ".xml" -> "xml"
       [] e = ".json" -> "json" [] e = ".yaml" -> "yaml"
       [] e = ".yml" -> "yaml" [] e = ".toml" -> "toml"
       [] e = ".ini" -> "ini" [] e = ".conf" -> "ini"
       [] e = ".md" -> "markdown" [] e = ".markdown" -> "markdown"
       [] e = ".tex" -> "latex" [] e = ".r" -> "r" [] e = ".m" -> "matlab"
       [] e = ".pl" -> "perl" [] e = ".lua" -> "lua" [] e = ".vim" -> "vim"
       [] e = ".dockerfile" -> "dockerfile"
       [] e = ".makefile" -> "makefile"]

\* Mutant: the language is looked up without regard to the table.
detectLanguageFromFile_AlwaysJs(filePath) == "javascript"

\* detectLanguageFromFile: "" stands for undefined.
detectLanguageFromFile(filePath) ==
  LET ext == toLowerCase(extname(filePath))
  IN IF ext \in DOMAIN langMap THEN langMap[ext] ELSE ""

\* ---------------------------------------------------------------- state
VARIABLES
  cmd,           \* the creator called: "upload", "link", "note", "noteFile"
  arg,           \* its first argument: file path, URL or note text
  fileExists,    \* fs.existsSync(filePath)
  readable,      \* whether fs.readFileSync(filePath) succeeds
  fileContent,   \* what fs.readFileSync(filePath, 'utf8') returns
  credentials,   \* credentials.type
  options,       \* the caller's options object
  entry,         \* "core": the creator is called directly; "cli": through
                 \* its command handler and executeCommand
  argsGiven,     \* args.length > 0 at the command handler
  porcelain,     \* globalOptions.porcelain, as given to initLogger
  pc,            \* where the invocation stands (the call it awaits)
  dropOptions,   \* the create payload
  board,         \* the board findBoard returned to uploadFile
  calls,         \* remote calls issued so far, in order
  svc,           \* the drop as the remote service holds it
  result,        \* the create response object (mutated in place)
  updateResponse,\* what drops.update resolved with
  createResponse,\* the create response as it arrived
  updateError,   \* what drops.update rejected with
  privacyError,  \* what updateDropPrivacy threw
  deleteError,   \* what drops.delete rejected with
  createError,   \* what drops.create rejected with
  returned,      \* value the creator resolved with
  raised,        \* error the creator rejected with
  stdout,        \* what was written to standard output, in order
  stderr,        \* lines written to the error channel
  exitCode,      \* the code process.exit was called with (-1: not called)
  exitSite,      \* the function that called process.exit
  nextId,        \* next fresh object identity
  parser,        \* the argument parser under study
  argv,          \* the argument list handed to it
  parsed,        \* what it returned
  opName,        \* the operation name handed to parseApiError
  apiError,      \* the error handed to parseApiError
  configFile,    \* what CONFIG_FILE holds on disk
  machineKey,    \* what getMachineKey derives from host, platform and arch
  setLog,        \* the kinds of the setCredentials calls that saved, in order
  lastSet,       \* the arguments of the last setCredentials call that saved
  got,           \* what the last getCredentials or setCredentials call returned
  decryptFailed  \* whether decrypt threw during the last getCredentials call

given == <<cmd, arg, fileExists, readable, fileContent, credentials, entry,
           argsGiven, porcelain>>

input == <<given, options>>

shell == <<stdout, exitCode, exitSite>>

store == <<configFile, machineKey, setLog, lastSet, got, decryptFailed>>

parsing == <<parser, argv, parsed, opName, apiError, store>>

vars == <<input, pc, dropOptions, board, calls, svc, result, createResponse,
          updateResponse, updateError, privacyError, deleteError, createError, returned,
          raised, shell, stderr, nextId, parsing>>

NoError == Raw(NoErrors, <<>>, 0, "", <<>>)
NoResult ==
  [code |-> "", shortlink |-> "", link |-> "", url |-> "",
   privacy |-> "NONE", title |-> <<>>]
NoPayload ==
  [type |-> "", content |-> <<>>, variant |-> "", title |-> <<>>,
   privacy |-> "", password |-> "", board_id |-> ""]
NoDrop == [exists |-> FALSE, privacy |-> "NONE", password |-> "", title |-> <<>>]

Options(privacy, password, title, boardName, lang, isCode) ==
  [privacy |-> privacy, password |-> password, title |-> title,
   board |-> boardName, lang |-> lang, isCode |-> isCode]

Call(op, code, payload) == [op |-> op, code |-> code, payload |-> payload]

\* What a file read as a note may hold.
FileContents == {<<>>, <<" ">>, <<"h", "i">>, <<" ", "h", " ">>}

NoBoard == [id |-> "", title |-> ""]

\* Nothing has run yet.
Fresh ==
  /\ dropOptions = NoPayload
  /\ board = NoBoard
  /\ calls = <<>>
  /\ svc = NoDrop
  /\ result = NoResult
  /\ createResponse = NoResult
  /\ updateResponse = NoResult
  /\ updateError = NoError
  /\ privacyError = NoError
  /\ deleteError = NoError
  /\ createError = NoError
  /\ returned = NoResult
  /\ raised = NoError
  /\ stdout = <<>>
  /\ stderr = <<>>
  /\ exitCode = -1
  /\ exitSite = ""
  /\ nextId = 1

\* The arguments a creator may be called with.
CreatorInputs(boards, texts) ==
  /\ cmd \in {"upload", "link", "note", "noteFile"}
  /\ arg \in CASE cmd = "upload" -> FileInputs
               [] cmd = "link" -> UrlInputs
               [] cmd = "note" -> texts
               [] cmd = "noteFile" -> FileInputs
  /\ fileExists \in IF cmd \in {"upload", "noteFile"} THEN BOOLEAN
                     ELSE {FALSE}
  /\ readable \in IF cmd = "noteFile" /\ fileExists THEN BOOLEAN ELSE {FALSE}
  /\ fileContent \in IF readable THEN FileContents ELSE {<<>>}
  /\ credentials \in CredTypes
  /\ \E privacy \in {"PUBLIC", "PRIVATE"}, password \in Passwords,
        title \in Titles :
       \E brd \in IF cmd = "upload" THEN boards ELSE {""},
          lang \in IF cmd \in {"note", "noteFile"} THEN {"", "javascript"}
                   ELSE {""},
          isCode \in IF cmd \in {"note", "noteFile"} THEN BOOLEAN
                     ELSE {FALSE} :
         options = Options(privacy, password, title, brd, lang, isCode)

NoParse ==
  [remainingArgs |-> <<>>, filePath |-> "", url |-> "", text |-> "",
   options |-> <<>>]

\* A stored string: absent (undefined), the empty string, a string that is
\* no "iv:ciphertext" pair, or what encrypt returned for text under key.
Stored(form, iv, key, text) ==
  [form |-> form, iv |-> iv, key |-> key, text |-> text]

Absent == Stored("absent", 0, "", "")

EmptyConfig ==
  [encryptedUsername |-> Absent, encryptedPassword |-> Absent,
   encryptedToken |-> Absent]

NoFile == [state |-> "missing", config |-> EmptyConfig]

\* What getCredentials returns; a field the object lacks is "<undefined>".
Credentials(type, username, password, token) ==
  [type |-> type, username |-> username, password |-> password,
   token |-> token]

NoCredentials ==
  Credentials("<undefined>", "<undefined>", "<undefined>", "<undefined>")

NoSet == [kind |-> "", username |-> "", password |-> "", token |-> "",
          key |-> ""]

\* The credential store is not under study.
NoStore ==
  /\ configFile = NoFile
  /\ machineKey = "hostA"
  /\ setLog = <<>>
  /\ lastSet = NoSet
  /\ got = NoCredentials
  /\ decryptFailed = FALSE

\* No argument parser is under study.
NoParsing ==
  /\ parser = ""
  /\ argv = <<>>
  /\ parsed = NoParse
  /\ opName = ""
  /\ apiError = NoError
  /\ NoStore

Init ==
  /\ CreatorInputs(Boards, Texts)
  /\ entry = "core"
  /\ argsGiven = TRUE
  /\ porcelain = FALSE
  /\ pc = "start"
  /\ Fresh
  /\ NoParsing

\* ------------------------------------------------- building blocks
\* Mutant: a rejection nobody is waiting for; the caller stays suspended.
Throw_Pending(err) ==
  /\ raised' = err
  /\ pc' = "pending"

\* The creator rejects with err.
Throw(err) ==
  /\ raised' = err
  /\ pc' = "raised"

\* The creator resolves with value.
Return(value) ==
  /\ returned' = value
  /\ pc' = "returned"

\* Mutant: logger.log writes in porcelain mode too.
log_Always(out, lines) ==
  out \o [k \in 1..Len(lines) |-> lines[k] \o <<"\n">>]

\* Standard output after logger.log was called once per line of lines.
log(out, lines) ==
  IF porcelain THEN out
  ELSE out \o [k \in 1..Len(lines) |-> lines[k] \o <<"\n">>]

\* Standard output after logger.output(...args).
output(out, args) ==
  IF porcelain THEN Append(out, Join([k \in 1..Len(args) |-> <<args[k]>>],
                                     " "))
  ELSE Append(out, args \o <<"\n">>)

\* client.drops.create(payload) is sent.
IssueCreate(payload) ==
  /\ dropOptions' = payload
  /\ calls' = Append(calls, Call("drops.create", "", payload))
  /\ pc' = "create"

\* Mutant: the update always carries a privacy field.
updateData_AlwaysPrivacy(opts) ==
  [privacy |-> IF opts.privacy = "" THEN "PUBLIC" ELSE opts.privacy,
   password |-> opts.password]

\* The update payload of updateDropPrivacy.
updateData(opts) ==
  [privacy |-> opts.privacy, password |-> opts.password]

\* updateDropPrivacy up to its await.
IssueUpdate(dropCode, opts) ==
  /\ calls' = Append(calls, Call("drops.update", dropCode, updateData(opts)))
  /\ pc' = "update"

\* safeDeleteDrop up to its await.
IssueDelete(dropCode) ==
  /\ calls' = Append(calls, Call("drops.delete", dropCode, <<>>))
  /\ pc' = "delete"

\* Mutant: the creator classifies under the classifier's default name.
CreatorCatch_Default(error, fresh) == parseApiError(error, "Operation", fresh)

\* The catch block of the creator: classify under its own operation name.
CreatorCatch(error, fresh) == parseApiError(error, OperationName(cmd), fresh)

\* Mutant: a PUBLIC intent is updated whether or not a password is given.
handlePrivateDropCreation_AlwaysUpdate(res) ==
  /\ IssueUpdate(res.code,
                 [privacy |-> IF options.privacy = "PRIVATE" THEN "PRIVATE"
                              ELSE "",
                  password |-> options.password])
  /\ UNCHANGED returned

\* Mutant: a drop the create response reports PRIVATE is not updated.
handlePrivateDropCreation_TrustsCreate(res) ==
  IF options.privacy # "PRIVATE" THEN
    IF options.password # "" THEN
      /\ IssueUpdate(res.code, [privacy |-> "", password |-> options.password])
      /\ UNCHANGED returned
    ELSE
      /\ Return(res)
      /\ UNCHANGED calls
  ELSE IF res.privacy = "PRIVATE" THEN
    /\ Return(res)
    /\ UNCHANGED calls
  ELSE
    /\ IssueUpdate(res.code,
                   [privacy |-> "PRIVATE", password |-> options.password])
    /\ UNCHANGED returned

\* handlePrivateDropCreation from its entry to its first await or return.
handlePrivateDropCreation(res) ==
  IF options.privacy # "PRIVATE" THEN
    IF options.password # "" THEN
      /\ IssueUpdate(res.code, [privacy |-> "", password |-> options.password])
      /\ UNCHANGED returned
    ELSE
      /\ Return(res)
      /\ UNCHANGED calls
  ELSE
    /\ IssueUpdate(res.code,
                   [privacy |-> "PRIVATE", password |-> options.password])
    /\ UNCHANGED returned

\* Mutant: the resolved board is not put into the payload.
UploadDropOptions_NoBoard(boardId) ==
  [type |-> "FILE",
   content |-> <<"[stream]">>,
   variant |-> getMimeType(basename(arg)),
   title |-> IF options.title # <<>> THEN options.title ELSE basename(arg),
   privacy |-> IF options.privacy = "PRIVATE" THEN "PRIVATE" ELSE "",
   password |-> options.password,
   board_id |-> ""]

\* The create payload of uploadFile.
UploadDropOptions(boardId) ==
  [type |-> "FILE",
   content |-> <<"[stream]">>,
   variant |-> getMimeType(basename(arg)),
   title |-> IF options.title # <<>> THEN options.title ELSE basename(arg),
   privacy |-> IF options.privacy = "PRIVATE" THEN "PRIVATE" ELSE "",
   password |-> options.password,
   board_id |-> boardId]

\* ------------------------------------------------------------- actions
\* uploadFile up to its first await.
uploadFile ==
  /\ cmd = "upload" /\ pc = "start"
  /\ IF ~fileExists THEN
       \* (the cross-mark glyph that precedes the text is left out)
       /\ Throw(UploadError(<<"File not found: ">> \o arg, nextId))
       /\ nextId' = nextId + 1
       /\ UNCHANGED <<dropOptions, calls>>
     ELSE IF credentials = "anonymous" THEN
       /\ Throw(UploadError(<<"No authentication configured">>, nextId))
       /\ nextId' = nextId + 1
       /\ UNCHANGED <<dropOptions, calls>>
     ELSE IF options.board # "" THEN
       /\ calls' = Append(calls,
            Call(IF isValidBoardId(options.board) THEN "boards.get"
                 ELSE "boards.list", options.board, <<>>))
       /\ pc' = "lookup"
       /\ UNCHANGED <<dropOptions, raised, nextId>>
     ELSE
       /\ IssueCreate(UploadDropOptions(""))
       /\ UNCHANGED <<raised, nextId>>
  /\ UNCHANGED <<input, shell, parsing, board, createResponse, updateError, svc, result,
                 updateResponse, privacyError, deleteError, createError, returned, stderr>>

\* createLink up to its first await.
createLink ==
  /\ cmd = "link" /\ pc = "start"
  /\ IF credentials = "anonymous" THEN
       /\ Throw(UploadError(<<"No authentication configured">>, nextId))
       /\ nextId' = nextId + 1
       /\ UNCHANGED <<dropOptions, calls>>
     ELSE IF ~ParsesAsURL(arg) THEN
       /\ Throw(UploadError(<<"Invalid URL format: ">> \o arg, nextId))
       /\ nextId' = nextId + 1
       /\ UNCHANGED <<dropOptions, calls>>
     ELSE
       /\ IssueCreate([NoPayload EXCEPT !.type = "LINK", !.content = arg,
                                       !.title = options.title])
       /\ UNCHANGED <<raised, nextId>>
  /\ UNCHANGED <<input, shell, parsing, board, createResponse, updateError, svc, result,
                 updateResponse, privacyError, deleteError, createError, returned, stderr>>

\* createNote(text, credentials, opts) up to its first await.
createNoteBody(text, opts) ==
  IF text = <<>> \/ Len(trim(text)) = 0 THEN
    /\ Throw(UploadError(<<"Note content cannot be empty">>, nextId))
    /\ nextId' = nextId + 1
    /\ UNCHANGED <<dropOptions, calls>>
  ELSE IF credentials = "anonymous" THEN
    /\ Throw(UploadError(<<"No authentication configured">>, nextId))
    /\ nextId' = nextId + 1
    /\ UNCHANGED <<dropOptions, calls>>
  ELSE
    /\ IssueCreate([NoPayload EXCEPT !.type = "NOTE",
                                    !.content = trim(text),
                                    !.variant = getVariant(opts),
                                    !.title = opts.title])
    /\ UNCHANGED <<raised, nextId>>

\* createNote up to its first await.
createNote ==
  /\ cmd = "note" /\ pc = "start"
  /\ createNoteBody(arg, options)
  /\ UNCHANGED <<input, shell, parsing, board, createResponse, updateError,
                 svc, result, updateResponse, privacyError, deleteError, createError,
                 returned, stderr>>

\* The options object as createNoteFromFile leaves it before calling
\* createNote: title and lang are filled in only when not given.
FileNoteOptions(filePath, opts) ==
  [opts EXCEPT
     !.title = IF opts.title = <<>> THEN basename(filePath) ELSE @,
     !.lang = IF opts.lang = "" THEN detectLanguageFromFile(filePath) ELSE @]

\* createNoteFromFile up to its first await (the one inside createNote).
createNoteFromFile ==
  /\ cmd = "noteFile" /\ pc = "start"
  /\ IF ~fileExists THEN
       /\ Throw(UploadError(<<"File not found: ">> \o arg, nextId))
       /\ nextId' = nextId + 1
       /\ UNCHANGED <<dropOptions, calls, options>>
     ELSE IF ~readable THEN
       \* readFileSync throws; the catch wraps what is not an UploadError
       /\ Throw(UploadError(<<"Failed to read file: ", "EACCES">>,
                            nextId + 1))
       /\ nextId' = nextId + 2
       /\ UNCHANGED <<dropOptions, calls, options>>
     ELSE
       /\ options' = FileNoteOptions(arg, options)
       /\ createNoteBody(fileContent, options')
  /\ UNCHANGED <<given, shell, parsing, board, createResponse, updateError,
                 svc, result, updateResponse, privacyError, deleteError, createError,
                 returned, stderr>>

\* Boards the service may list, and the lower-casing of their titles.
BoardLists ==
  { <<>>,
    << [id |-> "b-2", title |-> "Other"] >>,
    << [id |-> "b-2", title |-> "Other"],
       [id |-> "b-1", title |-> "MY BOARD"] >> }

lower(t) ==
  CASE t = "My Board" -> "my board"
    [] t = "MY BOARD" -> "my board"
    [] t = "Other" -> "other"
    [] OTHER -> t

\* boards.find(b => b.title.toLowerCase() === boardNameOrId.toLowerCase())
Matching(boards, name) ==
  {k \in 1..Len(boards) : lower(boards[k].title) = lower(name)}

\* The board lookup resolves: findBoard returns the board (or throws when
\* no title matches), and uploadFile goes on to drops.create.
FindBoardResolves ==
  /\ pc = "lookup"
  /\ \E boards \in BoardLists :
       LET hits == Matching(boards, options.board)
           byId == isValidBoardId(options.board)
       IN IF ~byId /\ hits = {} THEN
            /\ Throw(UploadError(<<"Board not found: ", options.board>>,
                                 nextId + 1))
            /\ nextId' = nextId + 2
            /\ UNCHANGED <<dropOptions, calls, board>>
          ELSE
            /\ board' = IF byId THEN [id |-> options.board, title |-> "Other"]
                        ELSE boards[CHOOSE k \in hits : \A j \in hits : k <= j]
            /\ IssueCreate(UploadDropOptions(board'.id))
            /\ UNCHANGED <<raised, nextId>>
  /\ UNCHANGED <<input, shell, parsing, createResponse, updateError, svc,
                 result, updateResponse, privacyError, deleteError, createError, returned,
                 stderr>>

\* The board lookup call fails.
FindBoardRejects ==
  /\ pc = "lookup"
  /\ \E raw \in RawErrors :
       /\ Throw(UploadError(<<"Board not found: ", options.board>>,
                            nextId + 2))
       /\ nextId' = nextId + 3
  /\ UNCHANGED <<input, shell, parsing, board, createResponse, updateError, dropOptions,
                 calls, svc, result, updateResponse, privacyError,
                 deleteError, createError, returned, stderr>>

\* The address fields a create response may carry.  A creator never reads
\* them, so the variety is kept for the runs that go on to report the URL.
UrlShapes ==
  IF entry = "core"
  THEN { [shortlink |-> "https://d.pr/abc123", link |-> "", url |-> ""] }
  ELSE { [shortlink |-> "https://d.pr/abc123",
          link |-> "https://d.pr/l/abc123", url |-> "https://d.pr/u/abc123"],
         [shortlink |-> "", link |-> "https://d.pr/l/abc123",
          url |-> "https://d.pr/u/abc123"],
         [shortlink |-> "", link |-> "", url |-> "https://d.pr/u/abc123"] }

\* What the service may answer to a create call.
CreateResponses ==
  { [code |-> "abc123", shortlink |-> u.shortlink, link |-> u.link,
     url |-> u.url, privacy |-> p, title |-> t] :
      u \in UrlShapes, p \in {"PUBLIC", "PRIVATE", "NONE"},
      t \in {<<>>, dropOptions.title} }

\* What createLink logs when the response title differs from the one sent.
TitleNote(response) ==
  IF cmd = "link" /\ response.title # dropOptions.title
  THEN << <<"NOTE: Setting a title on a link drop is not supported yet.">> >>
  ELSE <<>>

\* drops.create resolves; the creator hands the response to
\* handlePrivateDropCreation.
CreateResolves ==
  /\ pc = "create"
  /\ \E response \in CreateResponses,
        stored \in IF dropOptions.privacy = "PRIVATE"
                   THEN {"PUBLIC", "PRIVATE"} ELSE {"PUBLIC"} :
       /\ svc' = [exists |-> TRUE, privacy |-> stored, password |-> "",
                  title |-> response.title]
       /\ result' = response
       /\ createResponse' = response
       /\ stdout' = log(stdout, TitleNote(response))
       /\ handlePrivateDropCreation(response)
  /\ UNCHANGED <<input, exitCode, exitSite, parsing, board, updateError,
                 dropOptions, updateResponse, privacyError, deleteError, createError,
                 raised, stderr, nextId>>

\* drops.create rejects; the creator's catch classifies the error.
CreateRejects ==
  /\ pc = "create"
  /\ \E raw \in RawErrors :
       /\ createError' = [raw EXCEPT !.id = nextId]
       /\ Throw(CreatorCatch(createError', nextId + 1))
       /\ nextId' = nextId + 2
  /\ UNCHANGED <<input, shell, parsing, board, createResponse, updateError, dropOptions,
                 calls, svc, result, updateResponse, privacyError,
                 deleteError, returned, stderr>>

\* What the service may answer to an update call.
UpdateResponses ==
  { [result EXCEPT !.privacy = p] : p \in {"PUBLIC", "PRIVATE", "NONE"} }

\* Mutant: the update response is trusted for privacy.
ReconciledPrivacy_FromResponse(res, response) == response.privacy

\* The privacy written into the returned object after a successful update.
ReconciledPrivacy(res, response) == "PRIVATE"

\* drops.update resolves: updateDropPrivacy returns, and
\* handlePrivateDropCreation returns the (mutated) create result.
UpdateResolves ==
  /\ pc = "update"
  /\ \E response \in UpdateResponses :
       LET sent == calls[Len(calls)].payload
       IN /\ updateResponse' = response
          /\ svc' = [svc EXCEPT
                       !.privacy = IF sent.privacy # "" THEN sent.privacy
                                   ELSE @,
                       !.password = IF sent.password # "" THEN sent.password
                                    ELSE @]
          /\ IF options.privacy # "PRIVATE" THEN
               /\ Return(result)
               /\ UNCHANGED result
             ELSE
               /\ result' = [result EXCEPT
                               !.privacy = ReconciledPrivacy(result, response)]
               /\ Return(result')
  /\ UNCHANGED <<input, shell, parsing, board, createResponse, updateError, dropOptions,
                 calls, privacyError, deleteError, createError, raised, stderr, nextId>>

\* Mutants: the cleanup is dropped / is done for every intent.
DeletesOnFailure_Never(opts) == FALSE

DeletesOnFailure_Always(opts) == TRUE

\* Whether handlePrivateDropCreation cleans up after a failed update.
DeletesOnFailure(opts) == opts.privacy = "PRIVATE"

\* drops.update rejects: updateDropPrivacy throws the classified error; for
\* a PRIVATE intent handlePrivateDropCreation starts the cleanup, otherwise
\* the error reaches the creator's catch.
UpdateRejects ==
  /\ pc = "update"
  /\ \E raw \in RawErrors :
       LET thrown == parseApiError([raw EXCEPT !.id = nextId],
                                   "Privacy update", nextId + 1)
       IN /\ updateError' = [raw EXCEPT !.id = nextId]
          /\ privacyError' = thrown
          /\ IF DeletesOnFailure(options) THEN
               /\ IssueDelete(result.code)
               /\ nextId' = nextId + 2
               /\ UNCHANGED raised
             ELSE
               /\ Throw(CreatorCatch(thrown, nextId + 2))
               /\ nextId' = nextId + 2
               /\ UNCHANGED calls
  /\ UNCHANGED <<input, shell, parsing, board, createResponse, dropOptions, svc, result,
                 updateResponse, deleteError, createError, returned, stderr>>

\* Mutant: a failed cleanup masks the update error.
Rethrown_DeleteError(updateErr, deleteErr) ==
  IF deleteErr.message # <<>> THEN deleteErr ELSE updateErr

\* The error handlePrivateDropCreation rethrows after the cleanup.
Rethrown(updateErr, deleteErr) == updateErr

\* drops.delete resolves: the drop is gone, the update error is rethrown.
DeleteResolves ==
  /\ pc = "delete"
  /\ svc' = [svc EXCEPT !.exists = FALSE]
  /\ Throw(CreatorCatch(Rethrown(privacyError, deleteError), nextId))
  /\ UNCHANGED <<input, shell, parsing, board, createResponse, updateError, dropOptions,
                 calls, result, updateResponse, privacyError, deleteError, createError,
                 returned, stderr, nextId>>

\* drops.delete rejects: safeDeleteDrop swallows the error and warns, the
\* update error is rethrown.
DeleteRejects ==
  /\ pc = "delete"
  /\ \E raw \in RawErrors :
       /\ deleteError' = [raw EXCEPT !.id = nextId]
       /\ stderr' = Append(stderr,
            <<"Warning: Failed to clean up drop after operation failure">>)
       /\ Throw(CreatorCatch(Rethrown(privacyError, deleteError'), nextId + 1))
       /\ nextId' = nextId + 1
  /\ UNCHANGED <<input, shell, parsing, board, createResponse, updateError, dropOptions,
                 calls, svc, result, updateResponse, privacyError, returned,
                 createError>>

Next ==
  \/ createNoteFromFile
  \/ uploadFile
  \/ createLink
  \/ createNote
  \/ FindBoardResolves
  \/ FindBoardRejects
  \/ CreateResolves
  \/ CreateRejects
  \/ UpdateResolves
  \/ UpdateRejects
  \/ DeleteResolves
  \/ DeleteRejects

Spec == Init /\ [][Next]_vars

\* ------------------------------------------------ command-line wrappers
\* Mutant: the process exits with the success code.
Exit_Zero(site) ==
  /\ exitCode' = 0
  /\ exitSite' = site
  /\ pc' = "exited"

\* process.exit(1), called by the function named site.
Exit(site) ==
  /\ exitCode' = 1
  /\ exitSite' = site
  /\ pc' = "exited"

\* The operation name main hands to executeCommand.
CommandOperation ==
  CASE cmd = "upload" -> "Upload"
    [] cmd = "link" -> "Link creation"
    [] cmd \in {"note", "noteFile"} -> "Note creation"

\* handleUploadCommand up to the return of the command function.
handleUploadCommand ==
  /\ entry = "cli" /\ cmd = "upload" /\ pc = "handler"
  /\ IF arg = <<>> THEN
       /\ stderr' = stderr \o << <<"Error: Please specify a file to upload">>,
                                 <<"Use \"drplr help\" for usage information">> >>
       /\ Exit("handleUploadCommand")
     ELSE
       /\ pc' = "command"
       /\ UNCHANGED <<stderr, exitCode, exitSite>>
  /\ UNCHANGED <<input, stdout, parsing, board, dropOptions, calls, svc,
                 result, createResponse, updateResponse, updateError,
                 privacyError, deleteError, createError, returned, raised, nextId>>

\* handleLinkCommand up to the return of the command function.
handleLinkCommand ==
  /\ entry = "cli" /\ cmd = "link" /\ pc = "handler"
  /\ IF ~argsGiven THEN
       /\ stderr' = stderr \o << <<"Error: Please specify a URL to shorten">>,
                                 <<"Usage: drplr link <url> [options]">>,
                                 <<"Use \"drplr help\" for more information">> >>
       /\ Exit("handleLinkCommand")
     ELSE IF arg = <<>> THEN
       /\ stderr' = stderr \o << <<"Error: Please specify a URL to shorten">>,
                                 <<"Use \"drplr help\" for usage information">> >>
       /\ Exit("handleLinkCommand")
     ELSE
       /\ pc' = "command"
       /\ UNCHANGED <<stderr, exitCode, exitSite>>
  /\ UNCHANGED <<input, stdout, parsing, board, dropOptions, calls, svc,
                 result, createResponse, updateResponse, updateError,
                 privacyError, deleteError, createError, returned, raised, nextId>>

\* handleNoteCommand up to the return of the command function.
handleNoteCommand ==
  /\ entry = "cli" /\ cmd \in {"note", "noteFile"} /\ pc = "handler"
  /\ IF ~argsGiven THEN
       /\ stderr' = stderr \o
            << <<"Error: Please specify text content or use --file option">>,
               <<"Usage: drplr note \"text content\" [options]">>,
               <<"       drplr note --file notes.txt [options]">>,
               <<"       drplr note --code ... --lang javascript [options]">>,
               <<"       drplr note --code --file script.js [options]">>,
               <<"Use \"drplr help\" for more information">> >>
       /\ Exit("handleNoteCommand")
     ELSE
       /\ pc' = "command"
       /\ UNCHANGED <<stderr, exitCode, exitSite>>
  /\ UNCHANGED <<input, stdout, parsing, board, dropOptions, calls, svc,
                 result, createResponse, updateResponse, updateError,
                 privacyError, deleteError, createError, returned, raised, nextId>>

\* What requireAuthentication writes before it exits.
AuthenticationHelp ==
  << <<"Error: No authentication configured">>,
     <<"">>,
     <<"Choose one of these methods:">>,
     <<"1. Extract JWT from browser: drplr auth token <jwt_token>">>,
     <<"2. Use username/password: drplr auth login <username> <password>">>,
     <<"">>,
     <<"See \"drplr help\" for detailed instructions">> >>

\* The progress line of the command function.
Progress ==
  CASE cmd = "upload" -> <<"Uploading ">> \o basename(arg) \o <<"...">>
    [] cmd = "link" -> <<"Creating short link for ">> \o arg \o <<"...">>
    [] cmd = "noteFile" -> <<"Creating note from file ">> \o arg \o <<"...">>
    [] cmd = "note" -> <<"Creating note...">>

\* The command function that executeCommand awaits, from its entry to the
\* call of the creator: requireAuthentication, then the progress line.
commandFn ==
  /\ entry = "cli" /\ pc = "command"
  /\ IF credentials = "anonymous" THEN
       /\ stderr' = stderr \o AuthenticationHelp
       /\ Exit("requireAuthentication")
       /\ UNCHANGED stdout
     ELSE IF cmd = "note" /\ arg = <<>> THEN
       /\ stderr' = Append(stderr,
            <<"Error: Please specify text content or use --file option">>)
       /\ Exit("commandFn")
       /\ UNCHANGED stdout
     ELSE
       /\ stdout' = log(stdout, <<Progress>>)
       /\ pc' = "start"
       /\ UNCHANGED <<stderr, exitCode, exitSite>>
  /\ UNCHANGED <<input, parsing, board, dropOptions, calls, svc, result,
                 createResponse, updateResponse, updateError, privacyError,
                 deleteError, createError, returned, raised, nextId>>

\* result.shortlink || result.link || result.url
ReportedUrl(res) ==
  IF res.shortlink # "" THEN res.shortlink
  ELSE IF res.link # "" THEN res.link
  ELSE res.url

\* The lines the command function logs after a success without --porcelain.
Report(res) ==
  LET success ==
        CASE cmd = "upload" -> <<"Upload successful!">>
          [] cmd = "link" -> <<"Link created successfully!">>
          [] OTHER -> <<"Note created successfully!">>
      title ==
        IF cmd \in {"upload", "link"}
        THEN IF options.title # <<>>
             THEN << <<"Title: ">> \o options.title >> ELSE <<>>
        ELSE IF res.title # <<>>
             THEN << <<"Title: ">> \o res.title >> ELSE <<>>
      brd ==
        IF cmd = "upload" /\ options.board # ""
        THEN << <<"Board: ", options.board>> >> ELSE <<>>
      lang ==
        IF cmd \in {"note", "noteFile"} /\ options.lang # ""
        THEN << <<"Language: ", options.lang>> >> ELSE <<>>
      privacy ==
        IF res.privacy = "PRIVATE" THEN << <<"Privacy: Private">> >>
        ELSE IF options.privacy = "PRIVATE"
        THEN << <<"Privacy: Public (not supported or failed)">> >>
        ELSE <<>>
      password ==
        IF options.password # "" THEN << <<"Password protected: Yes">> >>
        ELSE <<>>
      url ==
        IF cmd = "upload" THEN << <<"URL: ", ReportedUrl(res)>> >>
        ELSE << <<"Short URL: ", ReportedUrl(res)>> >>
      original ==
        IF cmd = "link" THEN << <<"Original URL: ">> \o arg >> ELSE <<>>
  IN <<success>> \o title \o brd \o lang \o privacy \o password \o url
       \o original

\* The creator resolved: the command function reports the drop and
\* executeCommand returns.
commandFnReports ==
  /\ entry = "cli" /\ pc = "returned"
  /\ stdout' = IF porcelain THEN output(stdout, <<ReportedUrl(returned)>>)
               ELSE log(stdout, Report(returned))
  /\ pc' = "done"
  /\ UNCHANGED <<input, stderr, exitCode, exitSite, parsing, board,
                 dropOptions, calls, svc, result, createResponse,
                 updateResponse, updateError, privacyError, deleteError, createError,
                 returned, raised, nextId>>

\* String.prototype.includes for the two needles of handleCommandError.
includes(message, needle) == \E k \in 1..Len(message) : message[k] = needle

RemediationHint ==
  << <<"">>,
     <<"Try refreshing your authentication:">>,
     <<"- For JWT: Get a fresh token from your browser cookies at d.pr">>,
     <<"- For login: Check your username and password">> >>

\* What handleCommandError writes before it exits.
handleCommandError(error, operation) ==
  IF error.classified THEN << error.message >>
  ELSE << <<operation, " failed:", " ">> \o error.message >>
         \o IF includes(error.message, "401")
               \/ includes(error.message, "Unauthorized")
            THEN RemediationHint ELSE <<>>

\* The creator rejected: the catch of executeCommand hands the error to
\* handleCommandError, which reports it and exits.
executeCommandCatches ==
  /\ entry = "cli" /\ pc = "raised"
  /\ stderr' = stderr \o handleCommandError(raised, CommandOperation)
  /\ Exit("handleCommandError")
  /\ UNCHANGED <<input, stdout, parsing, board, dropOptions, calls, svc,
                 result, createResponse, updateResponse, updateError,
                 privacyError, deleteError, createError, returned, raised, nextId>>

\* The note texts a command is run with: the wrappers only tell an absent
\* text from a given one, so one blank and two non-blank texts stand for all.
CliTexts == {t \in Texts : Len(t) <= 1}

\* What a command may be run with: the creator inputs, without a board (the
\* argument parser never yields one), or no positional argument at all.
InitCli ==
  /\ \/ /\ CreatorInputs({""}, CliTexts)
        /\ cmd = "noteFile" => arg # <<>>
        /\ argsGiven = TRUE
     \/ /\ cmd \in {"upload", "link", "note"}
        /\ arg = <<>>
        /\ fileExists = FALSE /\ readable = FALSE /\ fileContent = <<>>
        /\ credentials \in CredTypes
        /\ argsGiven \in BOOLEAN
        /\ \E privacy \in {"PUBLIC", "PRIVATE"} :
             options = Options(privacy, "", <<>>, "", "", FALSE)
  /\ entry = "cli"
  /\ porcelain \in BOOLEAN
  /\ pc = "handler"
  /\ Fresh
  /\ NoParsing

NextCli ==
  \/ handleUploadCommand
  \/ handleLinkCommand
  \/ handleNoteCommand
  \/ commandFn
  \/ uploadFile
  \/ createLink
  \/ createNote
  \/ createNoteFromFile
  \/ CreateResolves
  \/ CreateRejects
  \/ UpdateResolves
  \/ UpdateRejects
  \/ DeleteResolves
  \/ DeleteRejects
  \/ commandFnReports
  \/ executeCommandCatches

SpecCli == InitCli /\ [][NextCli]_vars

\* The steps a command takes on its own, and those that wait for the
\* remote service to answer a call.
LocalStep ==
  \/ handleUploadCommand
  \/ handleLinkCommand
  \/ handleNoteCommand
  \/ commandFn
  \/ uploadFile
  \/ createLink
  \/ createNote
  \/ createNoteFromFile
  \/ commandFnReports
  \/ executeCommandCatches

CreateAnswered == CreateResolves \/ CreateRejects

UpdateAnswered == UpdateResolves \/ UpdateRejects

DeleteAnswered == DeleteResolves \/ DeleteRejects

\* The commands run to study progress: one file, text or URL of each kind
\* that matters to the wrappers, every privacy and password.
InitCliLive ==
  /\ InitCli
  /\ options.title = <<>> /\ options.lang = "" /\ ~options.isCode
  /\ arg \in {<<>>, <<"script", ".js">>, <<"h">>, <<" ">>, <<"not-a-url">>,
               <<"https", ":", "//", "example.com">>}

\* Every continuation that is ready runs (the event loop), and every remote
\* call is answered: it resolves or it fails.
SpecCliLive ==
  /\ InitCliLive
  /\ [][NextCli]_vars
  /\ WF_vars(LocalStep)
  /\ WF_vars(CreateAnswered)
  /\ WF_vars(UpdateAnswered)
  /\ WF_vars(DeleteAnswered)

\* ----------------------------------------------------- argument parsers
\* Longest argument list handed to a parser.
MaxArgs == 4

\* JavaScript's null and undefined, as values no argument equals.
null == "<null>"
undefined == "<undefined>"

\* The arguments tried on parseCommonArgs, parseUploadArgs and
\* parseLinkArgs, and those tried on parseNoteArgs.
CommonTokens ==
  {"--private", "-p", "--password", "--title", "--help", "-h", "--board",
   "image.png", "My Board", "-x"}

NoteTokens ==
  {"--file", "--code", "--lang", "--private", "regular text", "script.js"}

ArgLists(tokens) == UNION {[1..n -> tokens] : n \in 0..MaxArgs}

\* args[k], which is undefined past the end of the list.
At(args, k) == IF k \in 1..Len(args) THEN args[k] ELSE undefined

\* Mutant: no token is taken for an option.
startsWithDash_Never(tok) == FALSE

\* arg.startsWith('-')
startsWithDash(tok) ==
  tok \in {"--private", "-p", "--password", "--title", "--help", "-h",
           "--board", "-x", "--file", "--code", "--lang"}

\* !x for the values a parser tests.
falsy(x) == x \in {"", null, undefined}

\* The loop of parseCommonArgs from index i on.  showHelp = FALSE stands for
\* the property never having been set.
RECURSIVE parseCommonLoop(_, _, _, _)
parseCommonLoop(args, i, opts, remainingArgs) ==
  IF i > Len(args) THEN [options |-> opts, remainingArgs |-> remainingArgs]
  ELSE
    LET a == args[i]
    IN IF a = "--private" \/ a = "-p" THEN
         parseCommonLoop(args, i + 1, [opts EXCEPT !.privacy = "PRIVATE"],
                         remainingArgs)
       ELSE IF a = "--password" THEN
         parseCommonLoop(args, i + 2,
                         [opts EXCEPT !.password = At(args, i + 1)],
                         remainingArgs)
       ELSE IF a = "--title" THEN
         parseCommonLoop(args, i + 2,
                         [opts EXCEPT !.title = At(args, i + 1)],
                         remainingArgs)
       ELSE IF a = "--help" \/ a = "-h" THEN
         parseCommonLoop(args, i + 1, [opts EXCEPT !.showHelp = TRUE],
                         Append(remainingArgs, a))
       ELSE
         parseCommonLoop(args, i + 1, opts, Append(remainingArgs, a))

\* parseCommonArgs(args)
parseCommonArgs(args) ==
  parseCommonLoop(args, 1,
                  [privacy |-> "PUBLIC", password |-> null, title |-> null,
                   showHelp |-> FALSE],
                  <<>>)

\* The first element of remainingArgs that does not start with '-', or
\* none when there is no such element.
RECURSIVE FirstPositional(_, _)
FirstPositional(remainingArgs, none) ==
  IF remainingArgs = <<>> THEN none
  ELSE IF ~startsWithDash(Head(remainingArgs)) THEN Head(remainingArgs)
  ELSE FirstPositional(Tail(remainingArgs), none)

\* parseUploadArgs(args)
parseUploadArgs(args) ==
  LET common == parseCommonArgs(args)
  IN [filePath |-> FirstPositional(common.remainingArgs, null),
      options |-> common.options]

\* parseLinkArgs(args)
parseLinkArgs(args) ==
  LET common == parseCommonArgs(args)
  IN [url |-> FirstPositional(common.remainingArgs, ""),
      options |-> common.options]

\* The loop of parseNoteArgs from index i on.
RECURSIVE parseNoteLoop(_, _, _, _, _)
parseNoteLoop(remainingArgs, i, text, filePath, opts) ==
  IF i > Len(remainingArgs)
  THEN [text |-> text, filePath |-> filePath, options |-> opts]
  ELSE
    LET a == remainingArgs[i]
    IN IF a = "--file" THEN
         parseNoteLoop(remainingArgs, i + 2, text, At(remainingArgs, i + 1),
                       opts)
       ELSE IF a = "--code" THEN
         parseNoteLoop(remainingArgs, i + 2, At(remainingArgs, i + 1),
                       filePath, [opts EXCEPT !.isCode = TRUE])
       ELSE IF a = "--lang" THEN
         parseNoteLoop(remainingArgs, i + 2, text, filePath,
                       [opts EXCEPT !.lang = At(remainingArgs, i + 1)])
       ELSE IF ~startsWithDash(a) /\ falsy(text) /\ falsy(filePath) THEN
         parseNoteLoop(remainingArgs, i + 1, a, filePath, opts)
       ELSE
         parseNoteLoop(remainingArgs, i + 1, text, filePath, opts)

\* parseNoteArgs(args)
parseNoteArgs(args) ==
  LET common == parseCommonArgs(args)
      o == common.options
  IN parseNoteLoop(common.remainingArgs, 1, "", "",
                   [privacy |-> o.privacy, password |-> o.password,
                    title |-> o.title, showHelp |-> o.showHelp,
                    lang |-> null, isCode |-> FALSE])

\* The first pass of the other revision of parseNoteArgs, the one with a
\* codeText variable, from index i on.
RECURSIVE parseNoteFirstPass(_, _, _, _, _, _)
parseNoteFirstPass(remainingArgs, i, text, filePath, codeText, opts) ==
  IF i > Len(remainingArgs)
  THEN [text |-> IF ~falsy(codeText) THEN codeText ELSE text,
        filePath |-> filePath, options |-> opts]
  ELSE
    LET a == remainingArgs[i]
        nextArg == At(remainingArgs, i + 1)
    IN IF a = "--file" THEN
         parseNoteFirstPass(remainingArgs, i + 2, text, nextArg, codeText,
                            opts)
       ELSE IF a = "--code" THEN
         IF ~falsy(nextArg) /\ ~startsWithDash(nextArg)
         THEN parseNoteFirstPass(remainingArgs, i + 2, text, filePath,
                                 nextArg, [opts EXCEPT !.isCode = TRUE])
         ELSE parseNoteFirstPass(remainingArgs, i + 1, text, filePath,
                                 codeText, [opts EXCEPT !.isCode = TRUE])
       ELSE IF a = "--lang" THEN
         parseNoteFirstPass(remainingArgs, i + 2, text, filePath, codeText,
                            [opts EXCEPT !.lang = nextArg])
       ELSE IF ~startsWithDash(a) /\ falsy(text) THEN
         parseNoteFirstPass(remainingArgs, i + 1, a, filePath, codeText,
                            opts)
       ELSE
         parseNoteFirstPass(remainingArgs, i + 1, text, filePath, codeText,
                            opts)

\* parseNoteArgs(args) in the revision with a codeText variable.
parseNoteArgsCodeText(args) ==
  LET common == parseCommonArgs(args)
      o == common.options
  IN parseNoteFirstPass(common.remainingArgs, 1, "", "", "",
                        [privacy |-> o.privacy, password |-> o.password,
                         title |-> o.title, showHelp |-> o.showHelp,
                         lang |-> null, isCode |-> FALSE])

NoteParsers == {"parseNoteArgs", "parseNoteArgsCodeText"}

\* A parser is called with an argument list; nothing else is running.
InitArgs ==
  /\ parser \in {"parseCommonArgs", "parseUploadArgs", "parseLinkArgs"}
                   \cup NoteParsers
  /\ argv \in IF parser \in NoteParsers THEN ArgLists(NoteTokens)
               ELSE ArgLists(CommonTokens)
  /\ parsed = NoParse
  /\ opName = "" /\ apiError = NoError
  /\ NoStore
  /\ pc = "parse"
  /\ cmd = "" /\ arg = <<>> /\ fileExists = FALSE /\ readable = FALSE
  /\ fileContent = <<>> /\ credentials = "anonymous"
  /\ options = Options("PUBLIC", "", <<>>, "", "", FALSE)
  /\ entry = "args" /\ argsGiven = (argv # <<>>) /\ porcelain = FALSE
  /\ Fresh

\* The parser returns.
Parsed(value) ==
  /\ pc = "parse"
  /\ parsed' = value
  /\ pc' = "parsed"
  /\ UNCHANGED <<input, dropOptions, board, calls, svc, result,
                 createResponse, updateResponse, updateError, privacyError,
                 deleteError, createError, returned, raised, shell, stderr, nextId,
                 parser, argv, opName, apiError, store>>

ParseCommonArgs == parser = "parseCommonArgs" /\ Parsed(parseCommonArgs(argv))

ParseUploadArgs == parser = "parseUploadArgs" /\ Parsed(parseUploadArgs(argv))

ParseLinkArgs == parser = "parseLinkArgs" /\ Parsed(parseLinkArgs(argv))

ParseNoteArgs == parser = "parseNoteArgs" /\ Parsed(parseNoteArgs(argv))

ParseNoteArgsCodeText ==
  parser = "parseNoteArgsCodeText" /\ Parsed(parseNoteArgsCodeText(argv))

NextArgs ==
  \/ ParseCommonArgs
  \/ ParseUploadArgs
  \/ ParseLinkArgs
  \/ ParseNoteArgs
  \/ ParseNoteArgsCodeText

SpecArgs == InitArgs /\ [][NextArgs]_vars

\* ------------------------------------------------- classifier, alone
\* Validation payloads: none, the two of RawErrors, an empty list, and a
\* list with an entry whose messages array is empty.
Payloads ==
  { NoErrors,
    [fmt |-> "list",
     items |-> << Item("password", TRUE,
                       << <<"\"password\"", "is too short">>,
                          <<"must contain a digit">> >>),
                  Item("privacy", FALSE, <<>>) >>],
    [fmt |-> "list", items |-> <<>>],
    [fmt |-> "list",
     items |-> << Item("title", TRUE, <<>>),
                  Item("content", TRUE, << <<"is too long">> >>) >>],
    [fmt |-> "map",
     items |-> << Item("content", TRUE,
                       << <<"is not a url">>, <<"is too long">> >>),
                  Item("title", TRUE, << <<"is taken">> >>) >>] }

StatusTexts ==
  [st \in {0, 401, 500} |->
     CASE st = 0 -> "" [] st = 401 -> "Unauthorized"
       [] st = 500 -> "Internal Server Error"]

\* The errors parseApiError is tried on: every combination of payload,
\* message and status, and two errors that are classified already.
ApiErrors ==
  { [Raw(e, dm, st, StatusTexts[st], <<"socket hang up">>) EXCEPT !.id = 1] :
      e \in Payloads, dm \in {<<>>, <<"Drop limit reached">>},
      st \in DOMAIN StatusTexts }
  \cup { UploadError(<<"Board not found: ", "My Board">>, 1),
         UploadError(<<"Privacy update", " failed:", " ", "401", " ",
                       "Unauthorized">>, 1) }

Operations ==
  {"Upload", "Link creation", "Note creation", "Privacy update",
   "Board search"}

\* parseApiError is called with an error and an operation name.
InitClassify ==
  /\ apiError \in ApiErrors
  /\ opName \in Operations
  /\ parser = "" /\ argv = <<>> /\ parsed = NoParse
  /\ NoStore
  /\ pc = "classify"
  /\ cmd = "" /\ arg = <<>> /\ fileExists = FALSE /\ readable = FALSE
  /\ fileContent = <<>> /\ credentials = "anonymous"
  /\ options = Options("PUBLIC", "", <<>>, "", "", FALSE)
  /\ entry = "classify" /\ argsGiven = FALSE /\ porcelain = FALSE
  /\ dropOptions = NoPayload /\ board = NoBoard /\ calls = <<>>
  /\ svc = NoDrop /\ result = NoResult /\ createResponse = NoResult
  /\ updateResponse = NoResult /\ updateError = NoError
  /\ privacyError = NoError /\ deleteError = NoError /\ createError = NoError
  /\ returned = NoResult /\ raised = NoError
  /\ stdout = <<>> /\ stderr = <<>> /\ exitCode = -1 /\ exitSite = ""
  /\ nextId = 2

\* parseApiError returns; raised holds what it returned.
Classify ==
  /\ pc = "classify"
  /\ raised' = parseApiError(apiError, opName, nextId)
  /\ nextId' = nextId + 1
  /\ pc' = "classified"
  /\ UNCHANGED <<input, dropOptions, board, calls, svc, result,
                 createResponse, updateResponse, updateError, privacyError,
                 deleteError, createError, returned, shell, stderr, parsing>>

NextClassify == Classify

SpecClassify == InitClassify /\ [][NextClassify]_vars

\* ---------------------------------------------------- credential store
MaxSets == 3

MachineKeys == {"hostA", "hostB"}

\* crypto.randomBytes(16): the initialisation vectors told apart.
Ivs == {1, 2}

Usernames == {"", "alice"}
StorePasswords == {"", "pw"}
Tokens == {"", "tok"}

Garbled == Stored("garbled", 0, "", "")

\* What decrypt yields for a ciphertext of another key whose padding happens
\* to come out valid.
Garbage == "<garbage>"

getMachineKey == machineKey

\* encrypt(text) with the initialisation vector iv drawn: "iv:ciphertext",
\* never empty (an empty text still gives one padding block).
encrypt(text, iv) == Stored("cipher", iv, getMachineKey, text)

\* Truthiness of a stored string.
truthy(c) == c.form \in {"garbled", "cipher"}

Threw == [ok |-> FALSE, text |-> ""]

Decrypted(text) == [ok |-> TRUE, text |-> text]

\* The outcomes of decrypt(encryptedText): the text under the key it was
\* encrypted with; 'Failed to decrypt credentials' for a string that is no
\* iv:ciphertext pair; under another key the final block's padding check
\* fails, or passes by chance and garbage is returned.
decrypt(c) ==
  IF c.form # "cipher" THEN {Threw}
  ELSE IF c.key = getMachineKey THEN {Decrypted(c.text)}
  ELSE {Threw, Decrypted(Garbage)}

\* loadConfig: the parsed file, or {} when it is missing or does not parse.
loadConfig ==
  IF configFile.state = "json" THEN configFile.config ELSE EmptyConfig

\* What loadConfig logs.
loadConfigLog ==
  IF configFile.state = "invalid" THEN << <<"Error loading config:">> >>
  ELSE <<>>

\* Mutant: setting one kind leaves the fields of the other kind in place.
setCredentials_KeepsOther(config, type, a, b, iv1, iv2) ==
  IF type = "basic" THEN
    [config EXCEPT !.encryptedUsername = encrypt(a, iv1),
                   !.encryptedPassword = encrypt(b, iv2)]
  ELSE IF type = "jwt" THEN
    [config EXCEPT !.encryptedToken = encrypt(a, iv1)]
  ELSE config

\* The configuration setCredentials(type, ...args) hands to saveConfig.
setCredentials(config, type, a, b, iv1, iv2) ==
  IF type = "basic" THEN
    [config EXCEPT !.encryptedUsername = encrypt(a, iv1),
                   !.encryptedPassword = encrypt(b, iv2),
                   !.encryptedToken = Absent]
  ELSE IF type = "jwt" THEN
    [config EXCEPT !.encryptedToken = encrypt(a, iv1),
                   !.encryptedUsername = Absent,
                   !.encryptedPassword = Absent]
  ELSE config

Anonymous ==
  Credentials("anonymous", "<undefined>", "<undefined>", "<undefined>")

DecryptLog ==
  << <<"Error decrypting credentials:">>,
     <<"You may need to reconfigure your credentials.">> >>

\* The configurations found on disk before the first call: none, one that
\* does not parse, an empty one, a half-written basic pair, damaged strings,
\* both kinds side by side, and credentials stored on another machine.
StoredFiles ==
  {NoFile, [state |-> "invalid", config |-> EmptyConfig]}
    \cup { [state |-> "json", config |-> c] :
             c \in { EmptyConfig,
                     [EmptyConfig EXCEPT
                        !.encryptedUsername = Stored("cipher", 1, "hostB", "bob")],
                     [EmptyConfig EXCEPT
                        !.encryptedUsername = Stored("empty", 0, "", ""),
                        !.encryptedPassword = Garbled],
                     [EmptyConfig EXCEPT !.encryptedToken = Garbled],
                     [encryptedUsername |-> Stored("cipher", 1, "hostB", "bob"),
                      encryptedPassword |-> Stored("cipher", 2, "hostB", "pw0"),
                      encryptedToken |-> Stored("cipher", 1, "hostB", "tok0")] } }

InitStore ==
  /\ configFile \in StoredFiles
  /\ machineKey \in MachineKeys
  /\ setLog = <<>> /\ lastSet = NoSet
  /\ got = NoCredentials /\ decryptFailed = FALSE
  /\ parser = "" /\ argv = <<>> /\ parsed = NoParse
  /\ opName = "" /\ apiError = NoError
  /\ pc = "store"
  /\ cmd = "" /\ arg = <<>> /\ fileExists = FALSE /\ readable = FALSE
  /\ fileContent = <<>> /\ credentials = "anonymous"
  /\ options = Options("PUBLIC", "", <<>>, "", "", FALSE)
  /\ entry = "store" /\ argsGiven = FALSE /\ porcelain = FALSE
  /\ exitCode = -1 /\ exitSite = "" /\ nextId = 1
  /\ Fresh

StoreFrame ==
  UNCHANGED <<input, dropOptions, board, calls, svc, result, createResponse,
              updateResponse, updateError, privacyError, deleteError,
              createError, returned, raised, shell, nextId,
              parser, argv, parsed, opName, apiError>>

\* saveConfig(config): the file is written, or the write throws and false
\* is returned.
saveConfig(config, kind, a, b, written) ==
  /\ IF written THEN
       /\ configFile' = [state |-> "json", config |-> config]
       /\ setLog' = Append(setLog, kind)
       /\ lastSet' = [kind |-> kind,
                      username |-> IF kind = "basic" THEN a ELSE "",
                      password |-> IF kind = "basic" THEN b ELSE "",
                      token |-> IF kind = "jwt" THEN a ELSE "",
                      key |-> getMachineKey]
       /\ stderr' = loadConfigLog
     ELSE
       /\ UNCHANGED <<configFile, setLog, lastSet>>
       /\ stderr' = loadConfigLog \o << <<"Error saving config:">> >>
  /\ got' = Credentials(IF written THEN "true" ELSE "false",
                        "<undefined>", "<undefined>", "<undefined>")

\* setCredentials('basic', username, password), run by a process of its own.
SetBasic ==
  /\ entry = "store" /\ Len(setLog) < MaxSets
  /\ \E username \in Usernames, password \in StorePasswords,
        iv1 \in Ivs, iv2 \in Ivs, written \in BOOLEAN :
       saveConfig(setCredentials(loadConfig, "basic", username, password,
                                 iv1, iv2),
                  "basic", username, password, written)
  /\ pc' = "set"
  /\ UNCHANGED <<machineKey, decryptFailed>>
  /\ StoreFrame

\* setCredentials('jwt', token), run by a process of its own.
SetJwt ==
  /\ entry = "store" /\ Len(setLog) < MaxSets
  /\ \E token \in Tokens, iv \in Ivs, written \in BOOLEAN :
       saveConfig(setCredentials(loadConfig, "jwt", token, "", iv, iv),
                  "jwt", token, "", written)
  /\ pc' = "set"
  /\ UNCHANGED <<machineKey, decryptFailed>>
  /\ StoreFrame

\* getCredentials(), run by a process of its own.
GetCredentials ==
  /\ entry = "store"
  /\ LET config == loadConfig IN
       IF truthy(config.encryptedUsername) /\ truthy(config.encryptedPassword)
       THEN
         \E u \in decrypt(config.encryptedUsername),
            p \in decrypt(config.encryptedPassword) :
           /\ decryptFailed' = ~(u.ok /\ p.ok)
           /\ got' = IF u.ok /\ p.ok
                     THEN Credentials("basic", u.text, p.text, "<undefined>")
                     ELSE Anonymous
       ELSE IF truthy(config.encryptedToken) THEN
         \E t \in decrypt(config.encryptedToken) :
           /\ decryptFailed' = ~t.ok
           /\ got' = IF t.ok
                     THEN Credentials("jwt", "<undefined>", "<undefined>",
                                      t.text)
                     ELSE Anonymous
       ELSE
         /\ decryptFailed' = FALSE
         /\ got' = Anonymous
  /\ stderr' = loadConfigLog \o (IF decryptFailed' THEN DecryptLog ELSE <<>>)
  /\ pc' = "got"
  /\ UNCHANGED <<configFile, machineKey, setLog, lastSet>>
  /\ StoreFrame

\* The host name changes, or the configuration is carried to another
\* machine: getMachineKey derives another key from now on.
Rehost ==
  /\ entry = "store"
  /\ machineKey' \in MachineKeys \ {machineKey}
  /\ pc' = "rehosted"
  /\ UNCHANGED <<configFile, setLog, lastSet, got, decryptFailed, stderr>>
  /\ StoreFrame

NextStore ==
  \/ SetBasic
  \/ SetJwt
  \/ GetCredentials
  \/ Rehost

SpecStore == InitStore /\ [][NextStore]_vars

\* ------------------------------------------------------------- claims
Terminal == pc \in {"returned", "raised"}

CallsTo(op) == {k \in 1..Len(calls) : calls[k].op = op}

Created == createResponse # NoResult

UpdateFailed == updateError # NoError

DeleteFailed == deleteError # NoError

Warning == "Warning: Failed to clean up drop after operation failure"

Warned == \E k \in 1..Len(stderr) : stderr[k] = <<Warning>>

\* C1 as stated: after a successful create for a PRIVATE intent, every
\* terminal state has the drop returned as PRIVATE or gone from the service,
\* whatever the update and delete calls did.
C1_Original ==
  (Terminal /\ options.privacy = "PRIVATE" /\ Created) =>
    \/ pc = "returned" /\ returned.privacy = "PRIVATE"
    \/ ~svc.exists

\* C1 (amended): after a successful create for a PRIVATE intent, every
\* terminal state has the drop returned as PRIVATE (and private on the
\* service), or gone from the service, or the cleanup delete itself failed,
\* in which case the drop stays as create left it and a warning was written
\* to the error channel.
C1_PrivateReturnedOrDeleted ==
  (Terminal /\ options.privacy = "PRIVATE" /\ Created) =>
    \/ /\ pc = "returned"
       /\ returned.privacy = "PRIVATE"
       /\ svc.exists /\ svc.privacy = "PRIVATE"
    \/ pc = "raised" /\ ~svc.exists
    \/ pc = "raised" /\ DeleteFailed /\ Warned

C1_Witness ==
  /\ pc = "raised" /\ options.privacy = "PRIVATE" /\ Created
  /\ UpdateFailed /\ ~DeleteFailed /\ ~svc.exists

\* C2: for a PRIVATE intent whose update call failed, exactly one
\* drops.delete is issued, on the created drop's code, and the error raised
\* is the classified update error; when the delete fails too, its error is
\* not the one raised and a warning is written to the error channel.
C2_DeleteOnceThenUpdateError ==
  (options.privacy = "PRIVATE" /\ UpdateFailed) =>
    /\ Cardinality(CallsTo("drops.delete")) = 1
    /\ calls[Len(calls)].op = "drops.delete"
    /\ calls[Len(calls)].code = createResponse.code
    /\ pc \in {"delete", "raised"}
    /\ pc = "delete" => raised = NoError /\ stderr = <<>>
    /\ pc = "raised" =>
         /\ raised = privacyError
         /\ raised.classified
         /\ raised.message[1] = "Privacy update"
         /\ DeleteFailed => raised.id # deleteError.id /\ stderr = << <<Warning>> >>
         /\ ~DeleteFailed => stderr = <<>>

C2_Witness ==
  /\ pc = "raised" /\ options.privacy = "PRIVATE" /\ UpdateFailed
  /\ DeleteFailed /\ Warned /\ svc.exists

\* C3: for a PUBLIC intent with a password whose update call failed, no
\* drops.delete is issued, the drop still exists and is public, and the
\* classified update error is raised.
C3_PublicPasswordFailureKeepsDrop ==
  (options.privacy = "PUBLIC" /\ options.password # "" /\ UpdateFailed) =>
    /\ pc = "raised"
    /\ CallsTo("drops.delete") = {}
    /\ svc.exists /\ svc.privacy = "PUBLIC"
    /\ raised = privacyError
    /\ raised.classified
    /\ raised.message[1] = "Privacy update"

C3_Witness ==
  /\ pc = "raised" /\ options.privacy = "PUBLIC" /\ options.password # ""
  /\ UpdateFailed /\ svc.exists /\ Cardinality(CallsTo("drops.update")) = 1

\* The requested title was already applied by create, or none was requested.
TitleApplied == options.title = <<>> \/ createResponse.title = options.title

\* C4: for a PUBLIC intent without password and without a title that still
\* needs applying, no update and no delete call is issued and the created
\* drop is returned with every field as the create response had it.
C4_PlainPublicNoCalls ==
  (Created /\ options.privacy = "PUBLIC" /\ options.password = ""
     /\ TitleApplied) =>
    /\ pc = "returned"
    /\ CallsTo("drops.update") = {}
    /\ CallsTo("drops.delete") = {}
    /\ returned = createResponse
    /\ result = createResponse

C4_Witness ==
  /\ Created /\ options.privacy = "PUBLIC" /\ options.password = ""
  /\ options.title # <<>> /\ createResponse.title = options.title
  /\ pc = "returned"

\* C5: for a PRIVATE intent whose update call succeeded, the returned drop
\* has privacy PRIVATE, whatever the create and update responses reported.
C5_PrivateAfterUpdate ==
  (pc = "returned" /\ options.privacy = "PRIVATE") =>
    /\ returned.privacy = "PRIVATE"
    /\ Cardinality(CallsTo("drops.update")) = 1

C5_Witness ==
  /\ pc = "returned" /\ options.privacy = "PRIVATE"
  /\ createResponse.privacy = "NONE" /\ updateResponse.privacy = "PUBLIC"
  /\ returned.privacy = "PRIVATE"

\* C6 as stated: reconciliation issues an update call exactly when the
\* intent is PRIVATE, or has a password, or has a title that create did not
\* apply.
C6_Original ==
  Created =>
    ((CallsTo("drops.update") # {}) <=>
       (options.privacy = "PRIVATE" \/ options.password # "" \/ ~TitleApplied))

Contains(s, sub) ==
  \E i \in 0..(Len(s) - Len(sub)) : SubSeq(s, i + 1, i + Len(sub)) = sub

Occurrences(s, tok) == Cardinality({k \in 1..Len(s) : s[k] = tok})

\* A validation message without its leading quoted token.
Unquoted(msg) ==
  IF Len(msg) >= 1 /\ IsQuoted(msg[1]) THEN SubSeq(msg, 2, Len(msg)) ELSE msg

\* The "<field>: <message>" texts of a validation payload: for a list, one
\* per message (the message without its leading quoted token, "Invalid
\* value" for an entry without messages); for a map, one per field with the
\* field's messages separated by ", ".
ValidationLines(errors) ==
  IF errors.fmt = "list" THEN
    UNION { IF errors.items[k].hasMessages
            THEN { <<errors.items[k].field, ": ">>
                     \o Unquoted(errors.items[k].messages[j]) :
                   j \in 1..Len(errors.items[k].messages) }
            ELSE { <<errors.items[k].field, ": ", "Invalid value">> } :
            k \in 1..Len(errors.items) }
  ELSE
    { <<errors.items[k].field, ": ">> \o Join(errors.items[k].messages, ", ") :
      k \in 1..Len(errors.items) }

C8_ClassifierPassThrough ==
  (pc = "raised" /\ UpdateFailed) =>
    /\ privacyError.classified
    /\ raised.id = privacyError.id
    /\ raised.message = privacyError.message
    /\ Occurrences(raised.message, " failed:") = 1
    /\ raised.message[1] # OperationName(cmd)

C8_Witness ==
  /\ cmd = "link" /\ pc = "raised" /\ UpdateFailed
  /\ raised.id = privacyError.id
  /\ updateError.errors.fmt = "none"

IsHttpUrl(url) ==
  /\ Len(url) >= 4
  /\ url[1] \in {"http", "https"}
  /\ url[2] = ":" /\ url[3] = "//"

\* C9 as stated: createLink rejects every argument that is not an absolute
\* http or https URL with "Invalid URL format: <input>" and without a create
\* call, and accepts every http or https URL, which leads to a create call.
C9_Original ==
  (cmd = "link" /\ pc # "start" /\ credentials # "anonymous") =>
    IF IsHttpUrl(arg)
    THEN calls # <<>> /\ calls[1].op = "drops.create"
    ELSE /\ pc = "raised"
         /\ raised.message = <<"Invalid URL format: ">> \o arg
         /\ calls = <<>>

IsBlank(s) == \A k \in 1..Len(s) : s[k] \in WhiteSpace

\* c is s without its leading and trailing whitespace.
IsTrimOf(c, s) ==
  \E i \in 1..Len(s), j \in 1..Len(s) :
    /\ i <= j
    /\ c = SubSeq(s, i, j)
    /\ s[i] \notin WhiteSpace /\ s[j] \notin WhiteSpace
    /\ \A k \in 1..Len(s) : (k < i \/ k > j) => s[k] \in WhiteSpace

\* C10: createNote rejects an empty or whitespace-only text with "Note
\* content cannot be empty" and without any remote call; for any other text
\* the content of the create payload is the text without its leading and
\* trailing whitespace.
C10_EmptyNoteRejectedContentTrimmed ==
  (cmd = "note" /\ pc # "start") =>
    IF IsBlank(arg)
    THEN /\ pc = "raised"
         /\ raised.message = <<"Note content cannot be empty">>
         /\ calls = <<>>
    ELSE /\ credentials # "anonymous" => calls # <<>>
         /\ calls # <<>> =>
              /\ calls[1].op = "drops.create"
              /\ IsTrimOf(calls[1].payload.content, arg)
              /\ dropOptions.content = calls[1].payload.content

C10_Witness ==
  /\ cmd = "note" /\ pc = "raised" /\ calls = <<>>
  /\ Len(arg) >= 2 /\ IsBlank(arg)
  /\ raised.message = <<"Note content cannot be empty">>

\* The language and the base name each file of FileInputs is expected to
\* give, and its MIME type, written out case by case.
ExpectedLang(f) ==
  CASE f = <<"script", ".js">> -> "javascript"
    [] f = <<"notes", ".md">> -> "markdown"
    [] OTHER -> ""

ExpectedBaseName(f) ==
  IF f = <<"docs/", "report", ".final", ".pdf">>
  THEN <<"report", ".final", ".pdf">> ELSE f

ExpectedMime(f) ==
  CASE f = <<"test", ".txt">> -> "text/plain"
    [] f = <<"docs/", "report", ".final", ".pdf">> -> "application/pdf"
    [] f = <<"IMAGE", ".PNG">> -> "image/png"
    [] f = <<"notes", ".md">> -> "text/markdown"
    [] OTHER -> "application/octet-stream"

\* A note creator passes its checks and sends drops.create.
NoteCreateStep ==
  /\ cmd \in {"note", "noteFile"}
  /\ pc = "start" /\ pc' = "create"

\* C11: the create payload of a note has variant text/code exactly when the
\* code flag is set or a language is known, else text/plain; for a note read
\* from a file the language becomes the one of the file's extension and the
\* title the file's base name only when the caller gave none, an explicit
\* language or title is kept, and a file whose extension is outside the
\* table with no flag and no language gives a plain note.
C11_NoteVariantAndFileDefaults ==
  [][NoteCreateStep =>
       /\ dropOptions'.type = "NOTE"
       /\ dropOptions'.variant =
            IF options'.isCode \/ options'.lang # "" THEN "text/code"
            ELSE "text/plain"
       /\ dropOptions'.title = options'.title
       /\ options'.isCode = options.isCode
       /\ cmd = "note" => options' = options
       /\ cmd = "noteFile" =>
            /\ options'.lang = IF options.lang # "" THEN options.lang
                               ELSE ExpectedLang(arg)
            /\ options'.title = IF options.title # <<>> THEN options.title
                                ELSE ExpectedBaseName(arg)]_vars

C11_Witness ==
  /\ cmd = "noteFile" /\ arg = <<"script", ".js">> /\ pc = "create"
  /\ ~options.isCode /\ options.lang = "javascript"
  /\ options.title = <<"script", ".js">>
  /\ dropOptions.variant = "text/code"

\* C12: the create payload of uploadFile has type FILE, the MIME type of the
\* file name's last extension taken case-insensitively (the generic binary
\* type when the extension is unknown or missing), and as title the
\* explicit title when one is given, else the file's base name.
C12_UploadPayload ==
  \A k \in CallsTo("drops.create") :
    cmd = "upload" =>
      /\ calls[k].payload.type = "FILE"
      /\ calls[k].payload.variant = ExpectedMime(arg)
      /\ calls[k].payload.title =
           IF options.title # <<>> THEN options.title
           ELSE ExpectedBaseName(arg)

C12_Witness ==
  /\ cmd = "upload" /\ arg = <<"IMAGE", ".PNG">> /\ options.title = <<>>
  /\ CallsTo("drops.create") # {}
  /\ dropOptions.variant = "image/png"
  /\ dropOptions.title = <<"IMAGE", ".PNG">>

\* The precondition errors, told by their message.
FileNotFound ==
  raised.message = <<"File not found: ">> \o arg

InvalidURL == raised.message = <<"Invalid URL format: ">> \o arg

EmptyContent == raised.message = <<"Note content cannot be empty">>

BoardNotFound == raised.message = <<"Board not found: ", options.board>>

MissingAuthentication == raised.message = <<"No authentication configured">>

PreconditionError ==
  /\ pc = "raised"
  /\ FileNotFound \/ InvalidURL \/ EmptyContent \/ BoardNotFound
       \/ MissingAuthentication

\* The invocation's own input breaks a precondition that needs no lookup.
NoScheme(url) == Len(url) < 2 \/ url[2] # ":"

BrokenLocally ==
  \/ credentials = "anonymous" /\ ~(cmd = "noteFile" /\ fileExists /\ ~readable)
  \/ cmd \in {"upload", "noteFile"} /\ ~fileExists
  \/ cmd = "link" /\ NoScheme(arg)
  \/ cmd = "note" /\ IsBlank(arg)
  \/ cmd = "noteFile" /\ readable /\ IsBlank(fileContent)

BoardLookups == CallsTo("boards.get") \cup CallsTo("boards.list")

\* C13 as stated: every precondition error, BoardNotFound included, is
\* raised before any call to the remote service has been issued.
C13_Original == PreconditionError => calls = <<>>

\* C13, amended: an invocation whose input breaks a local precondition (an
\* unreadable file is not one of them) ends
\* with a precondition error and never issues a remote call; every
\* precondition error is raised before any drops.create, drops.update or
\* drops.delete call; BoardNotFound alone follows a remote call, the one
\* board lookup (boards.get or boards.list) that establishes it.
C13_PreconditionErrorsBeforeDropCalls ==
  /\ BrokenLocally =>
       /\ calls = <<>>
       /\ pc # "start" => PreconditionError /\ ~BoardNotFound
  /\ PreconditionError =>
       IF BoardNotFound
       THEN Len(calls) = 1 /\ BoardLookups = {1}
       ELSE calls = <<>>

C13_Witness ==
  /\ PreconditionError /\ BoardNotFound
  /\ Len(calls) = 1 /\ calls[1].op = "boards.list"

\* uploadFile was asked for a board and its lookup has come back.
LookupDone ==
  /\ cmd = "upload" /\ options.board # ""
  /\ BoardLookups # {} /\ pc # "lookup"

DropCalls ==
  CallsTo("drops.create") \cup CallsTo("drops.update")
    \cup CallsTo("drops.delete")

\* C14: when the board lookup of uploadFile does not resolve (no board with
\* that title, or the lookup call fails), uploadFile rejects with "Board not
\* found: <name>" and no drops.create, drops.update or drops.delete call is
\* issued; when it resolves, drops.create is issued and its payload carries
\* the id of the board that was found.
C14_BoardResolution ==
  LookupDone =>
    IF board = NoBoard
    THEN /\ pc = "raised"
         /\ raised.message = <<"Board not found: ", options.board>>
         /\ DropCalls = {}
    ELSE /\ board.id # ""
         /\ \/ board.id = options.board
            \/ lower(board.title) = lower(options.board)
         /\ Len(calls) >= 2 /\ calls[2].op = "drops.create"
         /\ \A k \in CallsTo("drops.create") :
              calls[k].payload.board_id = board.id

C14_Witness ==
  /\ LookupDone /\ options.board = "My Board"
  /\ board = [id |-> "b-1", title |-> "MY BOARD"]
  /\ pc = "returned" /\ dropOptions.board_id = "b-1"

\* A lookup that did not resolve, seen at the end of the invocation.
C14_WitnessUnresolved ==
  /\ LookupDone /\ board = NoBoard /\ pc = "raised" /\ Len(calls) = 1

Exited == pc = "exited"

\* The invocation is inside a creator or one of the functions it calls.
InCore == pc \in {"start", "lookup", "create", "update", "delete"}

Handlers == {"handleUploadCommand", "handleLinkCommand", "handleNoteCommand"}

\* C15 as stated: nothing run inside executeCommand terminates the process;
\* an exit after the command function has started comes from
\* handleCommandError alone.
C15_Original ==
  Exited => exitSite \in Handlers \cup {"handleCommandError"}

\* C15, amended: no creator and none of the functions it calls terminates
\* the process; an error a creator raises reaches handleCommandError, which
\* exits with code 1; the command function itself exits with code 1 in two
\* places before it calls the creator: requireAuthentication on anonymous
\* credentials, and the note command when it has neither text nor file.
C15_CoreRaisesWrapperExits ==
  /\ InCore \/ pc \in {"returned", "raised", "done"} =>
       exitCode = -1 /\ exitSite = ""
  /\ pc = "done" => raised = NoError
  /\ Exited =>
       /\ exitCode = 1
       /\ exitSite \in Handlers
                       \cup {"requireAuthentication", "commandFn",
                             "handleCommandError"}
       /\ exitSite = "handleCommandError" <=> raised # NoError
       /\ exitSite # "handleCommandError" => calls = <<>>
       /\ exitSite = "requireAuthentication" => credentials = "anonymous"
       /\ exitSite = "commandFn" =>
            cmd = "note" /\ arg = <<>> /\ credentials # "anonymous"

C15_Witness ==
  /\ Exited /\ exitSite = "handleCommandError" /\ exitCode = 1
  /\ raised # NoError /\ CallsTo("drops.delete") # {}

\* The two exits of the command function are reached.
C15_WitnessCommandExits ==
  /\ Exited /\ exitSite = "commandFn" /\ calls = <<>>

HintShown ==
  \E k \in 1..Len(stderr) :
    stderr[k] = <<"Try refreshing your authentication:">>

\* The error the command failed with is a service error that speaks of a
\* failed authentication.
AuthenticationFailure ==
  \/ \E k \in 1..Len(raised.message) : raised.message[k] = "401"
  \/ \E k \in 1..Len(raised.message) : raised.message[k] = "Unauthorized"

\* C16 as stated: a command that fails with an error whose message contains
\* "401" or "Unauthorized" shows the remediation hint before it exits with
\* code 1, and no other error gets the hint.
C16_Original ==
  (Exited /\ exitSite = "handleCommandError") =>
    /\ exitCode = 1
    /\ HintShown <=> AuthenticationFailure

\* What the code does instead: the hint is never shown.
C16_HintNeverShown == ~HintShown

C16_Witness ==
  /\ Exited /\ exitSite = "handleCommandError" /\ AuthenticationFailure
  /\ ~HintShown

\* The address of the created drop: its shortlink, else its link, else its
\* url.
DropUrl ==
  CASE createResponse.shortlink # "" -> createResponse.shortlink
    [] createResponse.shortlink = "" /\ createResponse.link # "" ->
         createResponse.link
    [] OTHER -> createResponse.url

\* C17: with --porcelain, a command that succeeds has written to standard
\* output exactly the drop's URL (shortlink, else link, else url), without
\* a line end, and nothing else; a command that has not succeeded (yet) has
\* written nothing to standard output, so every progress line, note,
\* warning and error is suppressed or goes to standard error.
C17_PorcelainOutput ==
  (entry = "cli" /\ porcelain) =>
    IF pc = "done" THEN stdout = << <<DropUrl>> >> /\ DropUrl # ""
    ELSE stdout = <<>>

C17_Witness ==
  /\ entry = "cli" /\ porcelain /\ pc = "done" /\ cmd = "link"
  /\ options.title # <<>> /\ createResponse.title = <<>>
  /\ createResponse.shortlink = ""
  /\ stdout = << <<"https://d.pr/l/abc123">> >>

HasParsed == pc = "parsed"

\* Position i of args holds the value of a --password or --title option:
\* the token before it is such an option and is not itself a value.
RECURSIVE IsValue(_, _)
IsValue(args, i) ==
  /\ i > 1
  /\ args[i - 1] \in {"--password", "--title"}
  /\ ~IsValue(args, i - 1)

\* The positions where one of names occurs as an option.
OptionAt(args, names) ==
  {i \in 1..Len(args) : args[i] \in names /\ ~IsValue(args, i)}

\* The value of the option name: the token after its last occurrence (none
\* when that occurrence ends the list), null when it does not occur.
ValueOf(args, name) ==
  LET at == OptionAt(args, {name})
  IN IF at = {} THEN null
     ELSE LET last == CHOOSE i \in at : \A j \in at : j <= i
          IN IF last < Len(args) THEN args[last + 1] ELSE undefined

\* The positions whose token goes to remainingArgs.
Kept(args) ==
  {i \in 1..Len(args) :
     /\ ~IsValue(args, i)
     /\ args[i] \notin {"--private", "-p", "--password", "--title"}}

\* r lists the tokens of args at the positions K, in their order.
ListsInOrder(r, args, K) ==
  /\ Len(r) = Cardinality(K)
  /\ \A i \in K : r[Cardinality({j \in K : j <= i})] = args[i]

\* The first kept token that is not an option, or none.
Positional(args, none) ==
  LET at == {i \in Kept(args) : args[i] \in {"image.png", "My Board"}}
  IN IF at = {} THEN none
     ELSE args[CHOOSE i \in at : \A j \in at : i <= j]

C19_Original ==
  (HasParsed /\ parser \in {"parseCommonArgs", "parseUploadArgs"}) =>
    /\ "board" \in DOMAIN parsed.options
    /\ parser = "parseCommonArgs" =>
         \A k \in 1..Len(parsed.remainingArgs) :
           parsed.remainingArgs[k] # "--board"
    /\ argv = <<"image.png", "--board", "My Board", "--private">> =>
         /\ parsed.filePath = "image.png"
         /\ parsed.options.privacy = "PRIVATE"
    /\ argv = <<"--board", "My Board", "image.png">> =>
         parsed.filePath = "image.png"

\* What the code does instead: the options never have a board, --board is
\* an ordinary remaining token and its value may be taken for the file
\* path.
C19_NoBoardOption ==
  (HasParsed /\ parser \in {"parseCommonArgs", "parseUploadArgs"}) =>
    /\ "board" \notin DOMAIN parsed.options
    /\ argv = <<"--board", "My Board", "image.png">> =>
         IF parser = "parseUploadArgs" THEN parsed.filePath = "My Board"
         ELSE parsed.remainingArgs = argv

\* The statement of C20 for the parser p, on the argument lists it names.
OrderIndependent(p) ==
  (HasParsed /\ parser = p) =>
    /\ argv \in { <<"regular text", "--code", "script.js">>,
                   <<"--code", "script.js", "regular text">> } =>
         parsed.text = "script.js" /\ parsed.options.isCode
    /\ argv \in { <<"regular text", "--file", "script.js">>,
                   <<"--file", "script.js", "regular text">> } =>
         parsed.text = "regular text" /\ parsed.filePath = "script.js"
    /\ argv = <<"--code", "--file", "script.js">> =>
         /\ parsed.options.isCode
         /\ parsed.filePath = "script.js"
         /\ ~startsWithDash(parsed.text)

\* C20 as stated: the result of parseNoteArgs does not depend on the order
\* of its arguments; the text given to --code sets isCode and wins over a
\* positional text wherever that stands; --file <path> is recorded as
\* filePath and a positional text given with it is still the text, in
\* either order; --code followed by --file <path> gives isCode, that
\* filePath and no option taken for the text.
C20_Original == OrderIndependent("parseNoteArgs")

\* The revision of parseNoteArgs with a codeText variable does what C20
\* says.
C20_CodeTextRevision == OrderIndependent("parseNoteArgsCodeText")

\* What parseNoteArgs does on those lists.
C20_OrderMatters ==
  (HasParsed /\ parser = "parseNoteArgs") =>
    /\ argv = <<"--file", "script.js", "regular text">> =>
         parsed.text = "" /\ parsed.filePath = "script.js"
    /\ argv = <<"regular text", "--file", "script.js">> =>
         parsed.text = "regular text" /\ parsed.filePath = "script.js"
    /\ argv = <<"--code", "--file", "script.js">> =>
         /\ parsed.text = "--file" /\ parsed.filePath = ""
         /\ parsed.options.isCode

\* The place of a remote operation in the order of one invocation.
Rank(op) ==
  CASE op \in {"boards.get", "boards.list"} -> 1
    [] op = "drops.create" -> 2
    [] op = "drops.update" -> 3
    [] op = "drops.delete" -> 4

\* C21: in one invocation the remote service sees at most one board lookup,
\* then at most one drops.create, then at most one drops.update, then at
\* most one drops.delete, in that order and none of them twice; the update
\* follows a successful create and is addressed to the created drop, the
\* delete follows a failed update of a PRIVATE intent and is addressed to
\* the same drop.
C21_CallOrder ==
  /\ \A j, k \in 1..Len(calls) :
       j < k => Rank(calls[j].op) < Rank(calls[k].op)
  /\ \A k \in CallsTo("drops.update") :
       /\ k > 1 /\ calls[k - 1].op = "drops.create"
       /\ Created /\ calls[k].code = createResponse.code
  /\ \A k \in CallsTo("drops.delete") :
       /\ k > 1 /\ calls[k - 1].op = "drops.update"
       /\ UpdateFailed /\ options.privacy = "PRIVATE"
       /\ calls[k].code = createResponse.code
  /\ (CallsTo("drops.create") # {} /\ ~Created /\ pc # "create") =>
       pc = "raised" /\ calls[Len(calls)].op = "drops.create"

C21_Witness ==
  /\ Len(calls) = 4 /\ pc = "raised"
  /\ calls[1].op = "boards.list" /\ calls[2].op = "drops.create"
  /\ calls[3].op = "drops.update" /\ calls[4].op = "drops.delete"

\* C22: the update payload of the reconciliation is addressed to the code
\* of the created drop and holds only what needs reconciling: a privacy
\* field, with value PRIVATE, exactly when the intent is PRIVATE, and a
\* password field, with the given password, exactly when a password was
\* given; so a PUBLIC intent with a password sends the password alone and a
\* PRIVATE intent without a password sends privacy alone.
C22_UpdatePayload ==
  \A k \in CallsTo("drops.update") :
    /\ calls[k].code = createResponse.code
    /\ calls[k].payload.privacy =
         IF options.privacy = "PRIVATE" THEN "PRIVATE" ELSE ""
    /\ calls[k].payload.password = options.password
    /\ DOMAIN calls[k].payload = {"privacy", "password"}
    /\ calls[k].payload.privacy # "" \/ calls[k].payload.password # ""

C22_Witness ==
  /\ CallsTo("drops.update") # {}
  /\ options.privacy = "PUBLIC" /\ options.password = "secret"
  /\ calls[Len(calls)].op = "drops.update"
  /\ calls[Len(calls)].payload = [privacy |-> "", password |-> "secret"]

Classified == pc = "classified"

\* A message without its "<operation> failed:" prefix.
AfterPrefix(m) == SubSeq(m, 3, Len(m))

StatusString(st) == CASE st = 401 -> "401" [] st = 500 -> "500"

\* What a raw error carries besides its validation payload.
OutsidePayload(e) ==
  {e.dataMessage[k] : k \in 1..Len(e.dataMessage)}
    \cup {e.message[k] : k \in 1..Len(e.message)}
    \cup {"401", "500", "Unauthorized", "Internal Server Error"}

\* C23: parseApiError takes the first branch that applies, in the order
\* classified error (returned as it is), validation payload (list or map),
\* single message, HTTP status with status text, the error's own message; a
\* raw error with a validation payload is rendered from the payload even
\* when it also has a message or a status; and for every raw error the
\* result is a new classified error whose message begins with
\* "<operation> failed:".
C23_ClassifierPriority ==
  Classified =>
    IF apiError.classified THEN raised = apiError
    ELSE
      /\ raised.classified /\ raised.id # apiError.id
      /\ Len(raised.message) >= 2
      /\ SubSeq(raised.message, 1, 2) = <<opName, " failed:">>
      /\ LET rest == AfterPrefix(raised.message)
         IN IF apiError.errors.fmt # "none" THEN
              \A k \in 1..Len(rest) : rest[k] \notin OutsidePayload(apiError)
            ELSE IF apiError.dataMessage # <<>> THEN
              rest = <<" ">> \o apiError.dataMessage
            ELSE IF apiError.status # 0 THEN
              rest = <<" ", StatusString(apiError.status), " ",
                       apiError.statusText>>
            ELSE rest = <<" ">> \o apiError.message

C23_Witness ==
  /\ Classified /\ opName = "Link creation"
  /\ apiError.errors.fmt = "map" /\ apiError.dataMessage # <<>>
  /\ apiError.status = 401
  /\ SubSeq(raised.message, 1, 5)
       = <<"Link creation", " failed:", "\n", "content", ": ">>

\* The positions of the separator sep in m, and the n-th stretch of m that
\* follows a separator and runs up to the next one (or to the end).
SeparatorsIn(m, sep) == {i \in 1..Len(m) : m[i] = sep}

Stretch(m, sep, n) ==
  LET at == SeparatorsIn(m, sep)
      from == CHOOSE i \in at : Cardinality({j \in at : j <= i}) = n
      later == {j \in at : j > from}
      to == IF later = {} THEN Len(m)
            ELSE (CHOOSE j \in later : \A l \in later : j <= l) - 1
  IN SubSeq(m, from + 1, to)

\* The messages an entry of a list payload is rendered with.
MessagesOf(item) ==
  IF item.hasMessages THEN item.messages ELSE << <<"Invalid value">> >>

\* The (entry, message) pairs of a list payload, and the place of a pair in
\* payload order.
Pairs(items) ==
  {<<k, j>> \in (1..Len(items)) \X (1..3) : j <= Len(MessagesOf(items[k]))}

PlaceOf(items, pair) ==
  Cardinality({q \in Pairs(items) :
                 q[1] < pair[1] \/ (q[1] = pair[1] /\ q[2] <= pair[2])})

\* C24: for a list payload the message is the "<operation> failed:" prefix
\* followed by exactly one "<field>: <message>" line per (entry, message)
\* pair, in payload order, each message without its leading quoted token,
\* and an entry without messages gives one line with "Invalid value"; for a
\* map payload it is the prefix followed by one "field: msg1, msg2" line
\* per field, in payload order.
C24_ValidationLines ==
  (Classified /\ ~apiError.classified /\ apiError.errors.fmt # "none") =>
    LET items == apiError.errors.items
        m == raised.message
    IN /\ SubSeq(m, 1, 2) = <<opName, " failed:">>
       /\ IF apiError.errors.fmt = "list" THEN
            /\ Cardinality(SeparatorsIn(m, "\n    * "))
                 = Cardinality(Pairs(items))
            /\ Pairs(items) # {} => m[3] = "\n    * "
            /\ Pairs(items) = {} => Len(m) = 2
            /\ \A pair \in Pairs(items) :
                 Stretch(m, "\n    * ", PlaceOf(items, pair))
                   = <<items[pair[1]].field, ": ">>
                       \o Unquoted(MessagesOf(items[pair[1]])[pair[2]])
          ELSE
            /\ Cardinality(SeparatorsIn(m, "\n")) = Len(items)
            /\ m[3] = "\n"
            /\ \A k \in 1..Len(items) :
                 Stretch(m, "\n", k)
                   = <<items[k].field, ": ">> \o Join(items[k].messages, ", ")

C24_Witness ==
  /\ Classified /\ opName = "Upload" /\ apiError.errors.fmt = "list"
  /\ raised.message =
       <<"Upload", " failed:",
         "\n    * ", "password", ": ", "is too short",
         "\n    * ", "password", ": ", "must contain a digit",
         "\n    * ", "privacy", ": ", "Invalid value">>

\* C25 as stated: no step of a creator or of handlePrivateDropCreation
\* changes the options object the caller passed in.
C25_Original == [][options' = options]_vars

\* What the code does instead: createNoteFromFile writes the default title
\* and language into the caller's object; nothing else writes to it, and
\* privacy, password, board and isCode are never written.
C25_OnlyFileNoteDefaults ==
  [][options' # options =>
       /\ cmd = "noteFile" /\ pc = "start" /\ fileExists /\ readable
       /\ options.title = <<>> \/ options.lang = ""
       /\ options' = [options EXCEPT !.title = options'.title,
                                     !.lang = options'.lang]]_vars

C25_Witness ==
  /\ cmd = "noteFile" /\ arg = <<"script", ".js">> /\ pc = "returned"
  /\ options.title = <<"script", ".js">> /\ options.lang = "javascript"

\* C26: on success the creator returns the object drops.create resolved
\* with, changed in the privacy field only: privacy is PRIVATE when the
\* intent was PRIVATE (the update carried privacy), whatever the update
\* response says; code, shortlink and every other field are those of the
\* create response, and after a password-only update or no update nothing
\* has changed.
C26_ReturnedObject ==
  pc = "returned" =>
    /\ returned = result
    /\ returned =
         [createResponse EXCEPT
            !.privacy = IF options.privacy = "PRIVATE" THEN "PRIVATE" ELSE @]
    /\ options.privacy # "PRIVATE" => returned = createResponse

C26_Witness ==
  /\ pc = "returned" /\ options.privacy = "PRIVATE"
  /\ createResponse.privacy = "PUBLIC" /\ updateResponse.privacy = "NONE"
  /\ returned.privacy = "PRIVATE"
  /\ returned.shortlink = createResponse.shortlink

\* A password-only update leaves the returned object as create gave it.
C26_WitnessPasswordOnly ==
  /\ pc = "returned" /\ options.privacy = "PUBLIC"
  /\ CallsTo("drops.update") # {} /\ updateResponse.privacy = "PRIVATE"
  /\ returned = createResponse /\ createResponse.privacy = "PUBLIC"

\* The command has ended: its result was reported, or the process exited.
Ended == pc \in {"done", "exited"}

\* C27: when every remote call is answered, every upload, link or note
\* command eventually ends, and stays ended: its result has been reported,
\* or the process has exited with a non-zero code; no branch of the drop
\* lifecycle loops or waits forever.
C27_CommandEnds ==
  /\ <>[]Ended
  /\ [](pc = "exited" => exitCode = 1)
  /\ [](raised # NoError => <>(pc = "exited" /\ exitCode = 1))

C27_Witness ==
  /\ pc = "exited" /\ exitSite = "handleCommandError"
  /\ DeleteFailed /\ Warned

\* A command that ended with its result reported, after an update.
C27_WitnessReported ==
  /\ pc = "done" /\ CallsTo("drops.update") # {} /\ stdout # <<>>

CreateFailed == createError # NoError

\* C28: when drops.create fails, in any creator, no drops.update and no
\* drops.delete call is issued (drops.create stays the last call and nothing
\* is returned), and the error raised is the create error classified under
\* the creator's own operation name: 'Upload', 'Link creation' or
\* 'Note creation' opens its message.
C28_CreateFailure ==
  CreateFailed =>
    /\ pc = "raised" /\ ~Created /\ returned = NoResult
    /\ CallsTo("drops.update") = {} /\ CallsTo("drops.delete") = {}
    /\ Cardinality(CallsTo("drops.create")) = 1
    /\ calls[Len(calls)].op = "drops.create"
    /\ ~createError.classified
    /\ raised = parseApiError(createError, OperationName(cmd), raised.id)
    /\ raised.classified /\ raised.id # createError.id
    /\ SubSeq(raised.message, 1, 2) =
         << CASE cmd = "upload" -> "Upload"
              [] cmd = "link" -> "Link creation"
              [] OTHER -> "Note creation",
            " failed:" >>
    /\ updateError = NoError /\ deleteError = NoError /\ stderr = <<>>

C28_Witness ==
  /\ CreateFailed /\ cmd = "link" /\ pc = "raised"
  /\ options.privacy = "PRIVATE"
  /\ raised.message[1] = "Link creation"
  /\ createError.status = 401

\* The same for an upload and for a note read from a file.
C28_WitnessUpload ==
  CreateFailed /\ cmd = "upload" /\ raised.message[1] = "Upload"

C28_WitnessNoteFile ==
  CreateFailed /\ cmd = "noteFile" /\ raised.message[1] = "Note creation"

C29_WitnessUpdated ==
  /\ options.privacy = "PRIVATE" /\ createResponse.privacy = "PRIVATE"
  /\ pc = "returned" /\ CallsTo("drops.update") # {}

\* The stored configuration holds exactly the credentials of lastSet.
HoldsLastSet ==
  LET config == configFile.config
      Holds(c, text) ==
        c.form = "cipher" /\ c.text = text /\ c.key = lastSet.key
  IN /\ configFile.state = "json"
     /\ lastSet.kind = setLog[Len(setLog)]
     /\ lastSet.kind = "basic" =>
          /\ Holds(config.encryptedUsername, lastSet.username)
          /\ Holds(config.encryptedPassword, lastSet.password)
          /\ config.encryptedToken = Absent
     /\ lastSet.kind = "jwt" =>
          /\ Holds(config.encryptedToken, lastSet.token)
          /\ config.encryptedUsername = Absent
          /\ config.encryptedPassword = Absent

\* The credentials record of the last setCredentials call that saved.
LastSetCredentials ==
  IF lastSet.kind = "basic"
  THEN Credentials("basic", lastSet.username, lastSet.password, "<undefined>")
  ELSE Credentials("jwt", "<undefined>", "<undefined>", lastSet.token)

NothingStored == loadConfig = EmptyConfig

\* C30: after setCredentials calls that saved, the stored configuration holds
\* credentials of exactly one kind, the kind set last, with the other kind's
\* fields removed; getCredentials, on the machine that set them, returns
\* that kind with the values last set; with nothing stored, or when
\* decryption fails, it returns the anonymous record.
C30_CredentialStore ==
  /\ setLog # <<>> => HoldsLastSet
  /\ pc = "got" =>
       /\ (setLog # <<>> /\ lastSet.key = machineKey) =>
            got = LastSetCredentials /\ ~decryptFailed
       /\ NothingStored => got = Anonymous
       /\ decryptFailed => got = Anonymous

C30_Witness ==
  /\ pc = "got" /\ setLog = <<"basic", "jwt">>
  /\ got = Credentials("jwt", "<undefined>", "<undefined>", "tok")

\* Basic credentials, with an empty user name, set after a token.
C30_WitnessBasicAfterJwt ==
  /\ pc = "got" /\ setLog = <<"jwt", "basic">>
  /\ got = Credentials("basic", "", "pw", "<undefined>")

\* Credentials that saved, read where they cannot be decrypted.
C30_WitnessDecryptFails ==
  /\ pc = "got" /\ setLog # <<>> /\ decryptFailed /\ got = Anonymous
  /\ stderr = DecryptLog

\* Nothing stored: no file, or one that does not parse.
C30_WitnessNothingStored ==
  /\ pc = "got" /\ configFile.state = "invalid" /\ got = Anonymous
  /\ ~decryptFailed
====
